---- MODULE Spec2Model ----
(***************************************************************************)
(* Model of the mach build/watch orchestration (synapticsim/mach).         *)
(*                                                                         *)
(* Two generations of the orchestration live in the sources:               *)
(*   - the settled-result pipeline: src/src/esbuild.ts:14-136,             *)
(*     src/src/mach.ts:14-36, src/index.ts:118-211  (specification Spec);  *)
(*   - the nested-module pipeline: src/src/esbuild.ts:218-301,             *)
(*     src/src/mach.ts:50-78, src/index.ts:31-75                           *)
(*     (specification SpecNested).                                         *)
(* The options resolver and the configuration schema are also checked on   *)
(* their own (specification SpecOptions), and so is the environment        *)
(* plugin, src/unnamed/part_006:13-89 (specification SpecEnvironment).     *)
(* Strings (instrument names, patterns, paths) are sequences of one-       *)
(* character strings.                                                      *)
(***************************************************************************)
EXTENDS Naturals, Integers, Sequences, FiniteSets, TLC

(***************************************************************************)
(* Bounds of the model.                                                    *)
(***************************************************************************)
MaxInstruments == 2
MaxInFlight == 2
MaxCalls == 2
\* segments of a manifest input path
MaxSegments == 4
\* times a path is resolved again
MaxResolves == 2
\* frames the call stack of the runtime holds before a call throws RangeError
StackLimit == 5
\* rebuilds of one watched instrument that are followed
MaxRebuilds == 2

(***************************************************************************)
(* The configuration under analysis.                                       *)
(***************************************************************************)
\* config.instruments[i].name for the first instruments of a configuration
InstrumentPool ==
    << <<"I","S","I">>, <<"C","T","P">>, <<"D","U">>, <<"P","F","D">> >>

\* instrument.modules.length for the instrument at tree position `node`
\* (a node is the sequence of list indices leading to it)
ModuleCount(node) ==
    IF node = <<1>> THEN 2
    ELSE IF node = <<1, 1>> THEN 1
    ELSE 0

\* values of the -f option; <<>> is the empty string
FilterOptions ==
    { <<>>, <<"I","S","I">>, <<"P">>, <<"X">> }

\* the JavaScript value undefined (no string of single characters equals it)
Undefined == << "undefined" >>

(***************************************************************************)
(* String and path primitives (JavaScript String, node:path on POSIX).     *)
(***************************************************************************)
\* String.prototype.indexOf: first 0-based offset of sub in s, or -1
IndexOf(s, sub) ==
    LET hits == { i \in 0..(Len(s) - Len(sub)) :
                    SubSeq(s, i + 1, i + Len(sub)) = sub }
    IN IF hits = {} THEN -1
       ELSE CHOOSE i \in hits : \A j \in hits : i <= j

\* String.prototype.slice(i)
Slice(s, i) == SubSeq(s, i + 1, Len(s))

\* RegExp.prototype.test for a flagless pattern of literal characters
RegExpTest(pattern, name) == IndexOf(name, pattern) >= 0

RECURSIVE SplitSegs(_, _, _)
\* s.split("/")
SplitSegs(p, cur, acc) ==
    IF p = <<>> THEN Append(acc, cur)
    ELSE IF Head(p) = "/" THEN SplitSegs(Tail(p), <<>>, Append(acc, cur))
    ELSE SplitSegs(Tail(p), Append(cur, Head(p)), acc)

RECURSIVE NormSegs(_, _)
\* node:path normalisation of the segments of an absolute path
NormSegs(segs, out) ==
    IF segs = <<>> THEN out
    ELSE LET s == Head(segs)
         IN IF s = <<>> \/ s = <<".">> THEN NormSegs(Tail(segs), out)
            ELSE IF s = <<".", ".">>
                 THEN NormSegs(Tail(segs),
                               IF out = <<>> THEN out
                               ELSE SubSeq(out, 1, Len(out) - 1))
            ELSE NormSegs(Tail(segs), Append(out, s))

RECURSIVE JoinSegs(_)
JoinSegs(segs) ==
    IF segs = <<>> THEN <<>>
    ELSE <<"/">> \o Head(segs) \o JoinSegs(Tail(segs))

\* process.cwd()
Cwd == <<"/", "w">>

IsAbsolute(p) == p # <<>> /\ Head(p) = "/"

\* path.resolve(p) with one argument
PathResolve(p) ==
    LET abs == IF IsAbsolute(p) THEN p ELSE Cwd \o <<"/">> \o p
        segs == NormSegs(SplitSegs(abs, <<>>, <<>>), <<>>)
    IN IF segs = <<>> THEN <<"/">> ELSE JoinSegs(segs)

\* path.dirname of an absolute path
Dirname(p) ==
    LET segs == NormSegs(SplitSegs(p, <<>>, <<>>), <<>>)
    IN IF Len(segs) <= 1 THEN <<"/">>
       ELSE JoinSegs(SubSeq(segs, 1, Len(segs) - 1))

\* path.basename
Basename(p) ==
    LET segs == NormSegs(SplitSegs(p, <<>>, <<>>), <<>>)
    IN IF segs = <<>> THEN <<>> ELSE segs[Len(segs)]

\* path.join(dir, base) for an absolute dir
PathJoin(dir, base) ==
    LET segs == NormSegs(SplitSegs(dir \o <<"/">> \o base, <<>>, <<>>), <<>>)
    IN IF segs = <<>> THEN <<"/">> ELSE JoinSegs(segs)

\* resolveFilename(input)
resolveFilename(input) ==
    LET cwdIndex == IndexOf(input, Cwd)
    IN PathResolve(IF cwdIndex >= 0 THEN Slice(input, cwdIndex) ELSE input)

(***************************************************************************)
(* Manifests the bundler may report (keys of result.metafile.inputs).      *)
(***************************************************************************)
FileA == <<"a">>
FileB == <<"b">>
FileC == <<"c">>
FileNs == <<"n", ":", "/", "w", "/", "d">>

Manifests == { {FileA, FileB}, {FileA, FileC}, {FileA, FileNs} }

InputFiles == UNION Manifests

\* resolveFilename, tabulated over the inputs the manifests name
ResolvedName == [ f \in InputFiles |-> resolveFilename(f) ]

\* Object.keys(result.metafile.inputs).map(resolveFilename)
BuiltFiles(manifest) == { ResolvedName[f] : f \in manifest }

\* watcher.getWatched(): watched base names grouped by directory
GetWatched(w) ==
    [ d \in { Dirname(f) : f \in w } |->
        { Basename(f) : f \in { g \in w : Dirname(g) = d } } ]

\* a change handler with the first loop only: files are added, none unwatched
WatchSetAfterNoUnwatch(w, bundledFiles) ==
    w \cup bundledFiles

\* a first loop that hands every file of the rebuilt manifest to watcher.add
AddCallsEveryFile(w, bundledFiles) ==
    bundledFiles

\* first loop of the change handler: the files handed to watcher.add, those of
\* the rebuilt manifest that watcher.getWatched() does not list
AddCalls(w, bundledFiles) ==
    LET watchedFiles == GetWatched(w)
    IN { f \in bundledFiles :
           ~ ( /\ Dirname(f) \in DOMAIN watchedFiles
               /\ Basename(f) \in watchedFiles[Dirname(f)] ) }

\* second loop of the change handler: the paths handed to watcher.unwatch,
\* those listed by watcher.getWatched() that the rebuilt manifest lacks
UnwatchCalls(w, bundledFiles) ==
    LET watchedFiles == GetWatched(w)
        listed == UNION { { PathJoin(dir, f) : f \in watchedFiles[dir] } :
                            dir \in DOMAIN watchedFiles }
    IN { filePath \in listed : filePath \notin bundledFiles }

\* the two loops of the change handler over watcher.getWatched() and the
\* rebuilt manifest: the watch set they leave
WatchSetAfter(w, bundledFiles) ==
    (w \cup AddCalls(w, bundledFiles)) \ UnwatchCalls(w, bundledFiles)

\* the change handler's update, tabulated over the watch sets and manifests
\* of the model: the watch set it leaves and the watcher calls it makes (the
\* empty function adds no entry; @@ makes the table an explicit function)
WatchSetTable ==
    [ w \in SUBSET { ResolvedName[f] : f \in InputFiles }, m \in Manifests |->
        [ after |-> WatchSetAfter(w, BuiltFiles(m)),
          add |-> AddCalls(w, BuiltFiles(m)),
          unwatch |-> UnwatchCalls(w, BuiltFiles(m)) ] ] @@ << >>

(***************************************************************************)
(* Instrument tree.                                                        *)
(***************************************************************************)
\* instrument.modules of the instrument at `node`
Modules(node) == { Append(node, j) : j \in 1..ModuleCount(node) }

\* every instrument of the tree below (and including) the top-level ones
AllNodes ==
    LET top == { <<i>> : i \in 1..MaxInstruments }
        d2 == UNION { Modules(t) : t \in top }
        d3 == UNION { Modules(m) : m \in d2 }
    IN top \cup d2 \cup d3

\* all nested modules of `node`, at every depth
Submodules(node) ==
    { m \in AllNodes : Len(m) > Len(node) /\ SubSeq(m, 1, Len(node)) = node }

(***************************************************************************)
(* Build options resolver (src/src/esbuild.ts:14-52, 218-262) and the      *)
(* schema of a configuration entry (src/unnamed/part_007:159-188).         *)
(* A JavaScript object is a function on its keys; an optional field that   *)
(* is not given is a key that is not in the domain.                        *)
(***************************************************************************)
Has(obj, key) == key \in DOMAIN obj

\* an object without keys
NoFields == [ key \in {} |-> TRUE ]

\* { ...a, ...b }
Spread(a, b) ==
    [ key \in DOMAIN a \cup DOMAIN b |-> IF key \in DOMAIN b THEN b[key] ELSE a[key] ]

ESBUILD_WARNINGS ==
    { "assign-to-constant", "assign-to-import", "call-import-namespace",
      "commonjs-variable-in-esm", "delete-super-property", "duplicate-case",
      "duplicate-object-key", "empty-import-meta", "equals-nan",
      "equals-negative-zero", "equals-new-object", "html-comment-in-js",
      "impossible-typeof", "private-name-will-throw", "semicolon-after-return",
      "suspicious-boolean-not", "this-is-undefined-in-esm",
      "unsupported-dynamic-import", "unsupported-jsx-comment",
      "unsupported-regexp", "unsupported-require-call", "css-syntax-error",
      "invalid-@charset", "invalid-@import", "invalid-@nest", "invalid-@layer",
      "invalid-calc", "js-comment-in-css", "unsupported-@charset",
      "unsupported-@namespace", "unsupported-css-property",
      "ambiguous-reexport", "different-path-case", "ignored-bare-import",
      "ignored-dynamic-import", "import-is-undefined",
      "require-resolve-not-external", "invalid-source-mappings",
      "sections-in-source-map", "missing-source-map",
      "unsupported-source-map-comment", "package.json", "tsconfig.json" }

ESBUILD_ERRORS == [ warning \in ESBUILD_WARNINGS |-> "error" ]

\* path.join(a, b, c)
PathJoin3(a, b, c) ==
    LET segs == NormSegs(SplitSegs(a \o <<"/">> \o b \o <<"/">> \o c, <<>>, <<>>), <<>>)
    IN IF IsAbsolute(a) THEN JoinSegs(segs) ELSE Tail(JoinSegs(segs))

\* "./bundles"
DefaultBundlesDir == << ".", "/", "b", "u", "n", "d", "l", "e", "s" >>
\* "bundle.js"
BundleJs == << "b", "u", "n", "d", "l", "e", ".", "j", "s" >>
\* "/module/module.mjs"
ModuleMjs == << "/", "m", "o", "d", "u", "l", "e", "/", "m", "o", "d", "u", "l", "e",
               ".", "m", "j", "s" >>

\* the name of module.resolve as a property key: String(undefined) when absent
AliasKey(module) == IF Has(module, "resolve") THEN module.resolve ELSE Undefined

\* Object.fromEntries(instrument.modules.map(({ resolve, index }) =>
\*     [resolve, path.resolve(index)])): for equal keys the last entry wins
Alias(modules) ==
    [ key \in { AliasKey(modules[i]) : i \in 1..Len(modules) } |->
        LET winner == CHOOSE i \in 1..Len(modules) :
                        /\ AliasKey(modules[i]) = key
                        /\ \A j \in 1..Len(modules) : AliasKey(modules[j]) = key => j <= i
        IN PathResolve(modules[winner].index) ]

\* args.config.esbuild, the global overrides
Overrides(a) == IF Has(a.config, "esbuild") THEN a.config.esbuild ELSE NoFields

\* the fields written before ...args.config.esbuild
DefaultOptions(a) ==
    [ absWorkingDir |-> Cwd,
      target |-> "es2017",
      logLevel |-> "silent",
      logOverride |-> IF a.werror THEN ESBUILD_ERRORS ELSE NoFields,
      sourcemap |-> IF Has(a, "outputSourcemaps") /\ a.outputSourcemaps
                    THEN "inline" ELSE "undefined",
      minify |-> a.minify ]

\* a plugin list with the global plugins ahead of the environment plugin
FixedOptionsGlobalFirst(a, instr) ==
    [ entryPoints |-> << instr.index >>,
      outfile |-> PathJoin3(IF Has(a, "bundles") THEN a.bundles ELSE DefaultBundlesDir,
                            instr.name, BundleJs),
      format |-> "iife",
      metafile |-> TRUE,
      bundle |-> TRUE,
      loader |-> Spread([ otf |-> "file", ttf |-> "file" ],
                        IF Has(Overrides(a), "loader") THEN Overrides(a).loader
                        ELSE NoFields),
      external |-> << "/Images/*", "/Fonts/*" >> \o
                       (IF Has(Overrides(a), "external") THEN Overrides(a).external
                        ELSE <<>>),
      plugins |-> (IF Has(Overrides(a), "plugins") THEN Overrides(a).plugins
                   ELSE <<>>) \o << "mach-environment" >> ]

\* the fields written after ...args.config.esbuild
FixedOptions(a, instr) ==
    [ entryPoints |-> << instr.index >>,
      outfile |-> PathJoin3(IF Has(a, "bundles") THEN a.bundles ELSE DefaultBundlesDir,
                            instr.name, BundleJs),
      format |-> "iife",
      metafile |-> TRUE,
      bundle |-> TRUE,
      loader |-> Spread([ otf |-> "file", ttf |-> "file" ],
                        IF Has(Overrides(a), "loader") THEN Overrides(a).loader
                        ELSE NoFields),
      external |-> << "/Images/*", "/Fonts/*" >> \o
                       (IF Has(Overrides(a), "external") THEN Overrides(a).external
                        ELSE <<>>),
      plugins |-> << "mach-environment" >> \o
                      (IF Has(Overrides(a), "plugins") THEN Overrides(a).plugins
                       ELSE <<>>) ]

\* an options literal with the global overrides spread last
SpreadOptionsOverridesLast(a, instr) ==
    Spread(Spread(DefaultOptions(a), FixedOptions(a, instr)), Overrides(a))

\* the options literal: defaults, then the global overrides, then the fixed fields
SpreadOptions(a, instr) ==
    Spread(Spread(DefaultOptions(a), Overrides(a)), FixedOptions(a, instr))

\* if (args.outputMetafile) options.plugins.push(writeMetafile)
WithMetafile(a, o) ==
    IF a.outputMetafile
    THEN [ o EXCEPT !["plugins"] = Append(@, "mach-write-metafile") ]
    ELSE o

\* if (instrument.modules) options.alias = ...
WithAlias(instr, o) ==
    IF Has(instr, "modules")
    THEN Spread(o, [ alias |-> Alias(instr.modules) ])
    ELSE o

\* a resolver that adds the packaging plugin whatever the run arguments say
WithPackageSourcesUnskippable(a, instr, o) ==
    IF Has(instr, "simulatorPackage")
    THEN [ o EXCEPT !["plugins"] = Append(@, "mach-write-package-sources") ]
    ELSE o

\* if (instrument.simulatorPackage && !args.skipSimulatorPackage)
\*     options.plugins.push(writePackageSources(args, instrument))
WithPackageSources(a, instr, o) ==
    IF Has(instr, "simulatorPackage") /\ ~a.skipSimulatorPackage
    THEN [ o EXCEPT !["plugins"] = Append(@, "mach-write-package-sources") ]
    ELSE o

\* getBuildOptions(args, instrument)
getBuildOptions(a, instr) ==
    WithPackageSources(a, instr,
        WithAlias(instr, WithMetafile(a, SpreadOptions(a, instr))))

\* configFile.index, read from the instrument's config.json
ConfigFileIndex == << "i", ".", "t", "s", "x" >>

\* build(instrument, logger, module) of the nested-module pipeline: the
\* options it hands to esbuild.build; bundlesDir is process.env.BUNDLES_DIR
\* and outputMetafile says whether process.env.OUTPUT_METAFILE is truthy
NestedBuildOptions(bundlesDir, outputMetafile, instr, module) ==
    LET plugins0 == << "imageInline", "sassPlugin" >>
        plugins1 == IF outputMetafile THEN Append(plugins0, "writeMetafile")
                    ELSE plugins0
        plugins2 == IF Has(instr, "modules")
                    THEN plugins1 \o << "resolve", "includeCSS" >>
                    ELSE plugins1
        plugins3 == IF ~(Has(instr, "skipPackageSources") /\ instr.skipPackageSources)
                       /\ ~module
                    THEN Append(plugins2, "writePackageSources")
                    ELSE plugins2
    IN [ entryPoints |-> << PathJoin(instr.directory,
                                     IF Has(instr, "input") THEN instr.input
                                     ELSE ConfigFileIndex) >>,
         outfile |-> PathJoin3(bundlesDir, instr.name,
                               IF module THEN ModuleMjs ELSE BundleJs),
         external |-> << "*.ttf" >>,
         bundle |-> TRUE,
         target |-> "es2017",
         format |-> IF module THEN "esm" ELSE "iife",
         logLevel |-> "silent",
         incremental |-> TRUE,
         metafile |-> TRUE,
         plugins |-> plugins3 ]

\* esbuild: the level of a diagnostic of category diag under these options
DiagnosticLevel(o, diag) ==
    IF Has(o, "logOverride") /\ Has(o.logOverride, diag)
    THEN o.logOverride[diag] ELSE "warning"

\* esbuild.build(options) for a build whose only diagnostic has category diag:
\* it rejects exactly when the diagnostic's level is "error"
EsbuildOutcome(o, diag) ==
    IF DiagnosticLevel(o, diag) = "error" THEN "failed" ELSE "succeeded"

\* the names of the packaging plugin in the two pipelines
PackagingPlugins == { "mach-write-package-sources", "writePackageSources" }

\* the onEnd callback of the packaging plugin: it writes the simulator
\* package when it is in the plugin list and the result has no errors
WritesPackage(o, instr, status) ==
    /\ \E i \in 1..Len(o.plugins) : o.plugins[i] \in PackagingPlugins
    /\ status = "succeeded"

\* the onEnd callback of the metafile plugin: it writes build_meta.json next
\* to the output file when it is in the plugin list and the result has no
\* errors
WritesMetafile(o, status) ==
    /\ \E i \in 1..Len(o.plugins) :
           o.plugins[i] \in { "mach-write-metafile", "writeMetafile" }
    /\ status = "succeeded"

\* process.env.OUTPUT_METAFILE as the earlier preAction hook leaves it: the
\* option value or false, which process.env stores as a string
OutputMetafileEnv(a) ==
    IF a.outputMetafile THEN << "t", "r", "u", "e" >>
    ELSE << "f", "a", "l", "s", "e" >>

\* InstrumentSchema: name and index are strings, modules an array of
\* InstrumentSchema when given, resolve a string when given
RECURSIVE InstrumentSchemaOk(_)
InstrumentSchemaOk(entry) ==
    /\ Has(entry, "name")
    /\ Has(entry, "index")
    /\ Has(entry, "modules") =>
           \A i \in 1..Len(entry.modules) : InstrumentSchemaOk(entry.modules[i])

(***************************************************************************)
(* The environment plugin (src/unnamed/part_006:13-89): the onLoad         *)
(* callback that replaces process.env.NAME references in a source file.    *)
(***************************************************************************)
\* the value null
Null == << "null" >>

\* the literal part of ENV_REGEX: process.env.
EnvPrefix == << "p", "r", "o", "c", "e", "s", "s", ".", "e", "n", "v", "." >>

\* the character class [A-Za-z0-9_] of ENV_REGEX
WordChars ==
    { "A", "B", "C", "D", "E", "F", "G", "H", "I", "J", "K", "L", "M",
      "N", "O", "P", "Q", "R", "S", "T", "U", "V", "W", "X", "Y", "Z",
      "a", "b", "c", "d", "e", "f", "g", "h", "i", "j", "k", "l", "m",
      "n", "o", "p", "q", "r", "s", "t", "u", "v", "w", "x", "y", "z",
      "0", "1", "2", "3", "4", "5", "6", "7", "8", "9", "_" }

RECURSIVE WordRun(_, _)
\* the length of the longest run of WordChars in s that starts at offset from
WordRun(s, from) ==
    IF from < Len(s) /\ s[from + 1] \in WordChars THEN 1 + WordRun(s, from + 1)
    ELSE 0

RECURSIVE MatchAll(_, _)
\* contents.matchAll(ENV_REGEX), searching from offset from: the matches in
\* order, each with its 0-based index, its text and its variable group
MatchAll(s, from) ==
    IF from + Len(EnvPrefix) + 1 > Len(s) THEN <<>>
    ELSE IF /\ SubSeq(s, from + 1, from + Len(EnvPrefix)) = EnvPrefix
            /\ WordRun(s, from + Len(EnvPrefix)) > 0
         THEN LET n == Len(EnvPrefix) + WordRun(s, from + Len(EnvPrefix))
              IN << [ index |-> from,
                      text |-> SubSeq(s, from + 1, from + n),
                      variable |-> SubSeq(s, from + Len(EnvPrefix) + 1, from + n) ] >>
                 \o MatchAll(s, from + n)
         ELSE MatchAll(s, from + 1)

RECURSIVE SplitLines(_, _, _)
\* contents.split("\n")
SplitLines(s, cur, acc) ==
    IF s = <<>> THEN Append(acc, cur)
    ELSE IF Head(s) = "\n" THEN SplitLines(Tail(s), <<>>, Append(acc, cur))
    ELSE SplitLines(Tail(s), Append(cur, Head(s)), acc)

RECURSIVE Locate(_, _, _)
\* while (column >= lines[line].length) { column -= lines[line].length + 1;
\* line += 1 }: reading .length of lines[line] past the last line throws
Locate(lines, line, column) ==
    IF line >= Len(lines) THEN [ threw |-> TRUE, line |-> line, column |-> column ]
    ELSE IF column >= Len(lines[line + 1])
         THEN Locate(lines, line + 1, column - (Len(lines[line + 1]) + 1))
         ELSE [ threw |-> FALSE, line |-> line, column |-> column ]

\* isNaN(value) for a non-empty string of letters, digits or "-": only a
\* string of decimal digits converts to a number
IsNaN(value) ==
    \E i \in 1..Len(value) :
        value[i] \notin { "0", "1", "2", "3", "4", "5", "6", "7", "8", "9" }

\* JSON.stringify of null or of a string without characters to escape
JSONStringify(value) ==
    IF value = Null THEN << "n", "u", "l", "l" >>
    ELSE << "\"" >> \o value \o << "\"" >>

\* the replacement text of a reference
Stringified(value) ==
    IF \/ value = << "t", "r", "u", "e" >>
       \/ value = << "f", "a", "l", "s", "e" >>
       \/ (value # Null /\ value # <<>> /\ ~IsNaN(value))
    THEN value
    ELSE JSONStringify(value)

\* process.env[name] ?? null
EnvValue(environment, name) ==
    IF name \in DOMAIN environment THEN environment[name] ELSE Null

\* " is not defined"
IsNotDefined == << " ", "i", "s", " ", "n", "o", "t", " ", "d", "e", "f", "i", "n", "e", "d" >>

\* one iteration of the loop over the matches; st holds the loop's variables
\* (lines is null until split is TRUE)
Substitute(path, environment, match, st) ==
    LET index == match.index + st.indexOffset
        value == EnvValue(environment, match.variable)
        lines == IF value = Null /\ ~st.split THEN SplitLines(st.contents, <<>>, <<>>)
                 ELSE st.lines
        at == Locate(lines, 0, match.index)
        stringified == Stringified(value)
    IN IF value = Null /\ at.threw
       THEN [ st EXCEPT !.threw = TRUE, !.split = TRUE, !.lines = lines ]
       ELSE [ contents |-> SubSeq(st.contents, 1, index) \o stringified
                           \o SubSeq(st.contents, index + Len(match.text) + 1,
                                     Len(st.contents)),
              indexOffset |-> st.indexOffset + Len(stringified) - Len(match.text),
              split |-> st.split \/ value = Null,
              lines |-> lines,
              warnings |-> IF value = Null
                           THEN Append(st.warnings,
                                       [ text |-> match.text \o IsNotDefined,
                                         file |-> path,
                                         line |-> at.line + 1,
                                         column |-> at.column,
                                         length |-> Len(match.text),
                                         lineText |-> lines[at.line + 1] ])
                           ELSE st.warnings,
              threw |-> FALSE ]

RECURSIVE SubstituteAll(_, _, _, _)
\* for (const match of contents.matchAll(ENV_REGEX)) { ... }
SubstituteAll(path, environment, matches, st) ==
    IF matches = <<>> \/ st.threw THEN st
    ELSE SubstituteAll(path, environment, Tail(matches),
                       Substitute(path, environment, Head(matches), st))

\* "node_modules"
NodeModules == << "n", "o", "d", "e", "_", "m", "o", "d", "u", "l", "e", "s" >>

\* the onLoad callback: what it returns for the file at path with these
\* contents, or that it threw
Loader(path, contents, environment) ==
    IF IndexOf(path, NodeModules) >= 0
    THEN [ contents |-> contents, warnings |-> <<>>, threw |-> FALSE ]
    ELSE LET st == SubstituteAll(path, environment, MatchAll(contents, 0),
                                 [ contents |-> contents, indexOffset |-> 0,
                                   split |-> FALSE, lines |-> <<>>,
                                   warnings |-> <<>>, threw |-> FALSE ])
         IN [ contents |-> st.contents, warnings |-> st.warnings, threw |-> st.threw ]

NoStep == [ act |-> "none", node |-> <<>>, ok |-> TRUE ]

VARIABLES
    caller,        \* "cli": the command line (index.ts); "api": machBuild/machWatch called directly
    command,       \* "build" or "watch"
    numConfigured, \* args.config.instruments.length
    filter,        \* the filter option, then args.filter: a pattern, or Undefined
    config,        \* the configuration file: "valid", "invalid" (fails the schema), "unloadable"
    args,          \* the MachArgs fields the options resolver reads
    instrument,    \* the instrument whose configuration entry is parsed and resolved
    accepted,      \* InstrumentSchema on that entry: "unparsed", "accepted", "rejected"
    options,       \* the BuildOptions handed to the bundler for it, or NoFields
    buildResult,   \* the bundler run with these options: its status, diagnostic, and whether
                   \* it was a submodule build and wrote the simulator package
    file,          \* the source file handed to the environment plugin: path and contents
    environ,       \* process.env: the defined names and their values
    loaded,        \* what the plugin's onLoad callback returned for the file, or NotLoaded
    heap,          \* the objects of the imported configuration module, by identity
    stack,         \* the call stack of MachConfigSchema.safeParse: one frame per object being parsed
    written,       \* the files written by builds: which configuration entry's build wrote which file
    resolved,      \* a manifest input path, followed by the results of resolving it again and again
    stage,         \* "hook", "aborted", "init", "running", "settled", "reported"
    targets,       \* the filtered instrument list, as indices into config.instruments
    phase,         \* per instrument: where its build driver invocation is
    calls,         \* per instrument: bundler invocations made for its entry point by the drivers (saturating)
    outcome,       \* per instrument: how the bundler call of its build settled: "none", "ok", "failed"
    errorsOf,      \* per instrument: the instrument whose errors its result carries, or <<>>
    results,       \* the aggregate result handed to the caller
    exited,        \* the process has ended
    exitCode,      \* the exit code of the ended process
    watched,       \* per instrument: the files its watcher observes
    subscribed,    \* per instrument: a watcher with a change handler exists
    inflight,      \* per instrument: rebuilds started by the change handler and not settled
    lastInputs,    \* per instrument: manifest inputs of its most recent successful build
    events,        \* per instrument: the terminal events its driver invocation has logged, in order
    pending,       \* the manifests of the rebuilds in flight of one instrument, in the order started
    styles,        \* the onEnd callbacks of one build: the append tasks of includeCSS, what writePackageSources read
    watchInit,     \* nested-module watch driver, per instrument: where its watchInstrument call is
    lastIndex,     \* the lastIndex property of the filter RegExp
    emitted,       \* the logger events and bundler calls made by the last step, in order
    last           \* the last step: which handler ran, for which instrument, on which bundler outcome

vars == << caller, command, numConfigured, filter, config, args, instrument, file, environ, loaded, heap, stack, written, resolved,
           pending, styles, watchInit, lastIndex,
           accepted, options, buildResult, stage, targets, phase,
           calls, outcome, errorsOf, events, results, exited, exitCode, watched, subscribed,
           inflight, lastInputs, emitted, last >>

resolverVars == << args, instrument, accepted, options, buildResult >>
loaderVars == << file, environ, loaded >>
parseVars == << heap, stack >>
outputVars == << written, resolved >>
raceVars == << pending, styles, watchInit, lastIndex >>
runVars == << caller, command, numConfigured, config, resolverVars, loaderVars,
             parseVars, outputVars, raceVars >>
watchVars == << watched, subscribed, inflight, lastInputs >>

Bump(n) == IF n < MaxCalls THEN n + 1 ELSE MaxCalls

Event(kind, n) == [ kind |-> kind, node |-> n ]
WatcherCall(kind, n, files) == [ kind |-> kind, node |-> n, files |-> files ]
Step(act, n, ok) == [ act |-> act, node |-> n, ok |-> ok ]

\* preAction hook: the filter option becomes a RegExp only when it is truthy
PreActionFilter(opt) ==
    IF opt = Undefined \/ opt = <<>> THEN Undefined ELSE opt

\* the build result before any options have been resolved
NoResult == [ module |-> FALSE, status |-> "none", diag |-> "none", packaged |-> FALSE,
              metafile |-> FALSE, rebuilds |-> 0 ]

\* a build whose onEnd callbacks have not run
NoStyles == [ stage |-> "idle", node |-> << >>, includes |-> FALSE, packages |-> FALSE,
              tasks |-> << >>, packaging |-> "none", packaged |-> {} ]

\* no options are being resolved
ResolverIdle ==
    /\ args = NoFields
    /\ instrument = NoFields
    /\ accepted = "unparsed"
    /\ options = NoFields
    /\ buildResult = NoResult

\* the result before the plugin has been called
NotLoaded == [ contents |-> <<>>, warnings |-> <<>>, threw |-> FALSE, done |-> FALSE ]

\* no file is being loaded
LoaderIdle ==
    /\ file = [ path |-> <<>>, contents |-> <<>> ]
    /\ environ = NoFields
    /\ loaded = NotLoaded

\* no configuration object is being parsed
ParseIdle ==
    /\ heap = << >>
    /\ stack = << >>

\* nothing has been built, watched, logged or reported
InitIdle ==
    /\ written = {}
    /\ resolved = << >>
    /\ pending = << >>
    /\ styles = NoStyles
    /\ watchInit = [ n \in AllNodes |-> "idle" ]
    /\ lastIndex = 0
    /\ targets = <<>>
    /\ phase = [ n \in AllNodes |-> "idle" ]
    /\ calls = [ n \in AllNodes |-> 0 ]
    /\ outcome = [ n \in AllNodes |-> "none" ]
    /\ errorsOf = [ n \in AllNodes |-> <<>> ]
    /\ events = [ n \in AllNodes |-> <<>> ]
    /\ results = <<>>
    /\ exited = FALSE
    /\ exitCode = 0
    /\ watched = [ n \in AllNodes |-> {} ]
    /\ subscribed = [ n \in AllNodes |-> FALSE ]
    /\ inflight = [ n \in AllNodes |-> 0 ]
    /\ lastInputs = [ n \in AllNodes |-> {} ]
    /\ emitted = <<>>
    /\ last = NoStep

InitRun ==
    /\ command \in { "build", "watch" }
    /\ numConfigured \in 0..MaxInstruments
    /\ ResolverIdle
    /\ LoaderIdle
    /\ ParseIdle
    /\ InitIdle

\* the command line before its preAction hook, or a program calling
\* machBuild / machWatch with its own MachArgs
Init ==
    /\ caller \in { "cli", "api" }
    /\ filter \in FilterOptions \cup { Undefined }
    /\ config \in IF caller = "cli" THEN { "valid", "invalid", "unloadable" }
                  ELSE { "valid" }
    /\ stage = IF caller = "cli" THEN "hook" ELSE "init"
    /\ InitRun

\* a hook that reports the configuration error and lets the command go on
PreActionWithoutExit ==
    /\ ~exited /\ caller = "cli" /\ stage = "hook"
    /\ filter' = PreActionFilter(filter)
    /\ stage' = "init"
    /\ emitted' = <<>>
    /\ last' = Step("preAction", <<>>, config = "valid")
    /\ UNCHANGED << runVars, outcome, events, targets, phase, calls, errorsOf,
                    results, exited, exitCode, watchVars >>

\* preAction hook: the filter option is converted, the configuration file is
\* imported and checked against MachConfigSchema; process.exit(1) unless both
\* succeed
PreAction ==
    /\ ~exited /\ caller = "cli" /\ stage = "hook"
    /\ filter' = PreActionFilter(filter)
    /\ IF config = "valid"
       THEN stage' = "init" /\ UNCHANGED << exited, exitCode >>
       ELSE stage' = "aborted" /\ exited' = TRUE /\ exitCode' = 1
    /\ emitted' = <<>>
    /\ last' = Step("preAction", <<>>, config = "valid")
    /\ UNCHANGED << runVars, outcome, events, targets, phase, calls, errorsOf,
                    results, watchVars >>

(***************************************************************************)
(* Run aggregator, settled-result pipeline (src/src/mach.ts:14-36) and its *)
(* command line (src/index.ts:131-209).                                    *)
(***************************************************************************)
\* a filter step defaulting to false: args.filter?.test(instrument.name) ?? false
SelectedOrFalse(i) ==
    IF filter = Undefined THEN FALSE
    ELSE RegExpTest(filter, InstrumentPool[i])

\* args.filter?.test(instrument.name) ?? true
Selected(i) ==
    IF filter = Undefined THEN TRUE
    ELSE RegExpTest(filter, InstrumentPool[i])

RECURSIVE FilterFrom(_)
\* args.config.instruments.filter(...), from index i on
FilterFrom(i) ==
    IF i > numConfigured THEN <<>>
    ELSE IF Selected(i) THEN <<i>> \o FilterFrom(i + 1)
    ELSE FilterFrom(i + 1)

FilteredInstruments == FilterFrom(1)

TargetNodes == { <<targets[k]>> : k \in 1..Len(targets) }

\* machBuild: filter, then start buildInstrument for every instrument;
\* each buildInstrument runs up to its call of esbuild.build
MachBuild ==
    /\ ~exited /\ stage = "init" /\ command = "build"
    /\ targets' = FilteredInstruments
    /\ LET started == { <<targets'[k]>> : k \in 1..Len(targets') }
       IN /\ phase' = [ n \in AllNodes |->
                          IF n \in started THEN "bundling" ELSE phase[n] ]
          /\ calls' = [ n \in AllNodes |->
                          IF n \in started THEN Bump(calls[n]) ELSE calls[n] ]
    /\ stage' = "running"
    /\ emitted' = [ k \in 1..Len(targets') |-> Event("build", <<targets'[k]>>) ]
    /\ last' = Step("machBuild", <<>>, TRUE)
    /\ UNCHANGED << runVars, filter, outcome, events, errorsOf, results, exited, exitCode, watchVars >>

\* buildInstrument, .then branch: buildComplete is logged, the result returned
BuildThen(n) ==
    /\ phase' = [ phase EXCEPT ![n] = "fulfilled" ]
    /\ events' = [ events EXCEPT ![n] = Append(@, "buildComplete") ]
    /\ emitted' = << Event("buildComplete", n) >>
    /\ UNCHANGED errorsOf

\* a driver that answers a failed bundler call with a second attempt
BuildCatchRetrying(n) ==
    /\ phase' = [ phase EXCEPT ![n] = "bundling" ]
    /\ errorsOf' = [ errorsOf EXCEPT ![n] = n ]
    /\ events' = [ events EXCEPT ![n] = Append(@, "buildFailed") ]
    /\ emitted' = << Event("buildFailed", n), Event("build", n) >>

\* buildInstrument, .catch branch: buildFailed is logged, the failure rethrown
BuildCatch(n) ==
    /\ phase' = [ phase EXCEPT ![n] = "rejected" ]
    /\ errorsOf' = [ errorsOf EXCEPT ![n] = n ]
    /\ events' = [ events EXCEPT ![n] = Append(@, "buildFailed") ]
    /\ emitted' = << Event("buildFailed", n) >>

\* the esbuild.build call of buildInstrument settles
BuildSettled(n, ok) ==
    /\ ~exited /\ command = "build" /\ n \in TargetNodes
    /\ phase[n] = "bundling"
    /\ last' = Step("build", n, ok)
    /\ outcome' = [ outcome EXCEPT ![n] = IF ok THEN "ok" ELSE "failed" ]
    /\ IF ok THEN BuildThen(n) ELSE BuildCatch(n)
    /\ UNCHANGED << runVars, filter, stage, targets, calls, results, exited, exitCode,
                    watchVars >>

\* an aggregate whose entries are in the reverse of the promises' order
SettledResultsReversed ==
    [ k \in 1..Len(targets) |-> phase[<<targets[Len(targets) + 1 - k]>>] ]

\* Promise.allSettled: one entry per promise, in order, once all have settled
SettledResults ==
    [ k \in 1..Len(targets) |-> phase[<<targets[k]>>] ]

\* an aggregator combining the builds with Promise.all: it is rejected, with
\* no per-instrument entries, as soon as one build rejects
AllSettledFailFast ==
    /\ ~exited /\ stage = "running"
    /\ \/ \E n \in TargetNodes : phase[n] = "rejected"
       \/ \A n \in TargetNodes : phase[n] = "fulfilled"
    /\ results' = IF \E n \in TargetNodes : phase[n] = "rejected"
                  THEN <<>> ELSE SettledResults
    /\ stage' = "settled"
    /\ emitted' = <<>>
    /\ last' = Step("allSettled", <<>>, TRUE)
    /\ UNCHANGED << runVars, filter, outcome, events, targets, phase, calls, errorsOf, exited,
                    exitCode, watchVars >>

AllSettled ==
    /\ ~exited /\ stage = "running"
    /\ \A n \in TargetNodes : phase[n] \in { "fulfilled", "rejected" }
    /\ results' = SettledResults
    /\ stage' = "settled"
    /\ emitted' = <<>>
    /\ last' = Step("allSettled", <<>>, TRUE)
    /\ UNCHANGED << runVars, filter, outcome, events, targets, phase, calls, errorsOf, exited, exitCode,
                    watchVars >>

\* results.filter(({ status }) => status === "fulfilled").length
NumSuccess == Cardinality({ k \in 1..Len(results) : results[k] = "fulfilled" })

\* parsedArgs.config.instruments.length
NumInstruments == numConfigured

\* the exit decision of the build command
BuildExitCode == IF NumSuccess < NumInstruments THEN 1 ELSE 0

\* build command: the callback chained on machBuild(parsedArgs); the process
\* ends with it
BuildCommandThen ==
    /\ ~exited /\ caller = "cli" /\ command = "build" /\ stage = "settled"
    /\ stage' = "reported"
    /\ exited' = TRUE
    /\ exitCode' = BuildExitCode
    /\ emitted' = <<>>
    /\ last' = Step("buildCommand", <<>>, TRUE)
    /\ UNCHANGED << runVars, filter, outcome, events, targets, phase, calls, errorsOf, results,
                    watchVars >>

(***************************************************************************)
(* Watch driver, settled-result pipeline (src/src/esbuild.ts:79-136).      *)
(***************************************************************************)
\* machWatch: filter, then start watchInstrument for every instrument;
\* each watchInstrument runs up to its await of esbuild.context(options)
MachWatch ==
    /\ ~exited /\ stage = "init" /\ command = "watch"
    /\ targets' = FilteredInstruments
    /\ LET started == { <<targets'[k]>> : k \in 1..Len(targets') }
       IN phase' = [ n \in AllNodes |->
                       IF n \in started THEN "context" ELSE phase[n] ]
    /\ stage' = "running"
    /\ emitted' = [ k \in 1..Len(targets') |-> Event("context", <<targets'[k]>>) ]
    /\ last' = Step("machWatch", <<>>, TRUE)
    /\ UNCHANGED << runVars, filter, outcome, events, calls, errorsOf, results, exited, exitCode,
                    watchVars >>

\* watchInstrument: the context exists; context.rebuild() is called
ContextCreated(n) ==
    /\ ~exited /\ command = "watch" /\ n \in TargetNodes
    /\ phase[n] = "context"
    /\ phase' = [ phase EXCEPT ![n] = "bundling" ]
    /\ calls' = [ calls EXCEPT ![n] = Bump(calls[n]) ]
    /\ emitted' = << Event("rebuild", n) >>
    /\ last' = Step("context", n, TRUE)
    /\ UNCHANGED << runVars, filter, outcome, events, stage, targets, errorsOf, results, exited,
                    exitCode, watchVars >>

\* watchInstrument after a fulfilled initial rebuild: buildComplete, the
\* watcher on the built files, the change handler, the result returned
WatchInitThen(n, m) ==
    /\ lastInputs' = [ lastInputs EXCEPT ![n] = m ]
    /\ watched' = [ watched EXCEPT ![n] = BuiltFiles(m) ]
    /\ subscribed' = [ subscribed EXCEPT ![n] = TRUE ]
    /\ phase' = [ phase EXCEPT ![n] = "fulfilled" ]
    /\ events' = [ events EXCEPT ![n] = Append(@, "buildComplete") ]
    /\ emitted' = << Event("buildComplete", n) >>
    /\ UNCHANGED errorsOf

\* a driver that logs the failed initial rebuild and goes on to subscribe a
\* watcher with nothing to watch
WatchInitCatchSubscribing(n) ==
    /\ phase' = [ phase EXCEPT ![n] = "rejected" ]
    /\ errorsOf' = [ errorsOf EXCEPT ![n] = n ]
    /\ events' = [ events EXCEPT ![n] = Append(@, "buildFailed") ]
    /\ emitted' = << Event("buildFailed", n) >>
    /\ subscribed' = [ subscribed EXCEPT ![n] = TRUE ]
    /\ UNCHANGED << watched, lastInputs >>

\* a driver whose failed initial rebuild closes the watchers of every instrument
WatchInitCatchClosingAll(n) ==
    /\ phase' = [ phase EXCEPT ![n] = "rejected" ]
    /\ errorsOf' = [ errorsOf EXCEPT ![n] = n ]
    /\ events' = [ events EXCEPT ![n] = Append(@, "buildFailed") ]
    /\ emitted' = << Event("buildFailed", n) >>
    /\ subscribed' = [ m \in AllNodes |-> FALSE ]
    /\ UNCHANGED << watched, lastInputs >>

\* watchInstrument after a rejected initial rebuild: buildFailed, rethrown
WatchInitCatch(n) ==
    /\ phase' = [ phase EXCEPT ![n] = "rejected" ]
    /\ errorsOf' = [ errorsOf EXCEPT ![n] = n ]
    /\ events' = [ events EXCEPT ![n] = Append(@, "buildFailed") ]
    /\ emitted' = << Event("buildFailed", n) >>
    /\ UNCHANGED << watched, subscribed, lastInputs >>

\* the initial context.rebuild() of watchInstrument settles
InitialBuildSettled(n, ok) ==
    /\ ~exited /\ command = "watch" /\ n \in TargetNodes
    /\ phase[n] = "bundling"
    /\ last' = Step("initial", n, ok)
    /\ outcome' = [ outcome EXCEPT ![n] = IF ok THEN "ok" ELSE "failed" ]
    /\ IF ok THEN \E m \in Manifests : WatchInitThen(n, m)
       ELSE WatchInitCatch(n)
    /\ UNCHANGED << runVars, filter, stage, targets, calls, results, exited, exitCode,
                    inflight >>

\* a change handler that builds afresh: a new context and a full build
ChangeWithFreshContext(n, f) ==
    /\ ~exited /\ subscribed[n] /\ f \in watched[n]
    /\ inflight[n] < MaxInFlight
    /\ emitted' = << Event("changeDetected", n), Event("context", n),
                     Event("rebuild", n) >>
    /\ inflight' = [ inflight EXCEPT ![n] = @ + 1 ]
    /\ calls' = [ calls EXCEPT ![n] = Bump(calls[n]) ]
    /\ last' = Step("change", n, TRUE)
    /\ UNCHANGED << runVars, filter, outcome, events, stage, targets, phase, errorsOf,
                    results, exited, exitCode, watched, subscribed, lastInputs >>

\* a change handler that ignores notifications while a rebuild is in flight
ChangeSerialized(n, f) ==
    /\ ~exited /\ subscribed[n] /\ f \in watched[n]
    /\ inflight[n] = 0
    /\ emitted' = << Event("changeDetected", n), Event("rebuild", n) >>
    /\ inflight' = [ inflight EXCEPT ![n] = @ + 1 ]
    /\ last' = Step("change", n, TRUE)
    /\ UNCHANGED << runVars, filter, outcome, events, stage, targets, phase, calls, errorsOf, results,
                    exited, exitCode, watched, subscribed, lastInputs >>

\* the watcher's "change" handler up to its await: changeDetected, then
\* context.rebuild()
Change(n, f) ==
    /\ ~exited /\ subscribed[n] /\ f \in watched[n]
    /\ inflight[n] < MaxInFlight
    /\ emitted' = << Event("changeDetected", n), Event("rebuild", n) >>
    /\ inflight' = [ inflight EXCEPT ![n] = @ + 1 ]
    /\ last' = Step("change", n, TRUE)
    /\ UNCHANGED << runVars, filter, outcome, events, stage, targets, phase, calls, errorsOf, results,
                    exited, exitCode, watched, subscribed, lastInputs >>

\* a change handler that closes its watcher once a rebuild has succeeded
RebuildThenClosing(n, m) ==
    /\ lastInputs' = [ lastInputs EXCEPT ![n] = m ]
    /\ watched' = [ watched EXCEPT ![n] = {} ]
    /\ subscribed' = [ subscribed EXCEPT ![n] = FALSE ]
    /\ emitted' = << Event("buildComplete", n) >>

\* change handler, .then branch: buildComplete, then the watch set update
\* through the calls of watcher.add and of watcher.unwatch
RebuildThen(n, m) ==
    /\ lastInputs' = [ lastInputs EXCEPT ![n] = m ]
    /\ \E upd \in { WatchSetTable[watched[n], m] } :
           /\ watched' = [ watched EXCEPT ![n] = upd.after ]
           /\ emitted' = << Event("buildComplete", n),
                            WatcherCall("add", n, upd.add),
                            WatcherCall("unwatch", n, upd.unwatch) >>
    /\ UNCHANGED subscribed

\* a change handler whose .catch branch closes the watcher
RebuildCatchClosingWatcher(n) ==
    /\ emitted' = << Event("buildFailed", n) >>
    /\ subscribed' = [ subscribed EXCEPT ![n] = FALSE ]
    /\ UNCHANGED << watched, lastInputs >>

\* a change handler whose .catch branch swallows the failure
RebuildCatchSilent(n) ==
    /\ emitted' = << >>
    /\ UNCHANGED << watched, subscribed, lastInputs >>

\* change handler, .catch branch: buildFailed, nothing else
RebuildCatch(n) ==
    /\ emitted' = << Event("buildFailed", n) >>
    /\ UNCHANGED << watched, subscribed, lastInputs >>

\* a context.rebuild() started by the change handler settles
RebuildSettled(n, ok) ==
    /\ ~exited /\ subscribed[n] /\ inflight[n] > 0
    /\ last' = Step("rebuild", n, ok)
    /\ inflight' = [ inflight EXCEPT ![n] = @ - 1 ]
    /\ IF ok THEN \E m \in Manifests : RebuildThen(n, m)
       ELSE RebuildCatch(n)
    /\ UNCHANGED << runVars, filter, outcome, events, stage, targets, phase, calls, errorsOf, results,
                    exited, exitCode >>

\* results.some(({ status }) => status === "rejected")
SomeRejected == \E k \in 1..Len(results) : results[k] = "rejected"

\* watch command: the callback chained on machWatch(...); without a
\* rejection the process lives on for as long as a watcher exists
WatchCommandThen ==
    /\ ~exited /\ caller = "cli" /\ command = "watch" /\ stage = "settled"
    /\ stage' = "reported"
    /\ IF SomeRejected
       THEN exited' = TRUE /\ exitCode' = 1
       ELSE exited' = (\A n \in AllNodes : ~subscribed[n]) /\ exitCode' = 0
    /\ emitted' = <<>>
    /\ last' = Step("watchCommand", <<>>, TRUE)
    /\ UNCHANGED << runVars, filter, outcome, events, targets, phase, calls, errorsOf, results,
                    watchVars >>

Next ==
    \/ PreAction
    \/ MachBuild
    \/ \E n \in AllNodes : \E ok \in BOOLEAN : BuildSettled(n, ok)
    \/ AllSettled
    \/ MachWatch
    \/ \E n \in AllNodes : ContextCreated(n)
    \/ \E n \in AllNodes : \E ok \in BOOLEAN : InitialBuildSettled(n, ok)
    \/ \E n \in AllNodes : \E f \in watched[n] : Change(n, f)
    \/ \E n \in AllNodes : \E ok \in BOOLEAN : RebuildSettled(n, ok)
    \/ BuildCommandThen
    \/ WatchCommandThen

Spec == Init /\ [][Next]_vars

\* the same program with a bundler whose rebuild calls all settle; only the
\* instruments of the configuration list are watched in this pipeline
SpecSettling ==
    Spec /\ \A i \in 1..MaxInstruments : WF_vars(\E ok \in BOOLEAN : RebuildSettled(<<i>>, ok))

(***************************************************************************)
(* Nested-module pipeline: build driver (src/src/esbuild.ts:218-301), run  *)
(* aggregator (src/src/mach.ts:50-78), command line (src/index.ts:31-75).  *)
(* A build driver invocation never rejects here: a failed build is a       *)
(* fulfilled result whose errors list is not empty (errorsOf).             *)
(***************************************************************************)
\* preAction hook: the filter option always becomes a RegExp;
\* new RegExp(undefined) is the empty pattern
NestedPreActionFilter(opt) ==
    IF opt = Undefined THEN <<>> ELSE opt

InitNested ==
    /\ caller = "cli"
    /\ command = "build"
    /\ config = "valid"
    /\ stage = "init"
    /\ filter \in { NestedPreActionFilter(opt) : opt \in FilterOptions \cup { Undefined } }
    /\ InitRun

\* res.errors.length > 0 for the settled result of the driver invocation at n
HasErrors(n) == errorsOf[n] # <<>>

RECURSIVE SubtreeOneAtATime(_)
\* a driver that awaits each module build before it starts the next one: a
\* call reaches the instrument and the first module at every depth
SubtreeOneAtATime(node) ==
    { node } \cup IF ModuleCount(node) > 0 THEN SubtreeOneAtATime(Append(node, 1))
                  ELSE {}

\* the nodes a call of buildInstrument(node) reaches before its first
\* suspension: the instrument and, through modules.map, all nested modules
Subtree(node) == { node } \cup Submodules(node)

\* buildInstrument entered: with modules it awaits Promise.all over their
\* builds; without, it is in build(), awaiting the read of config.json
EnteredPhase(n) == IF Modules(n) # {} THEN "modules" ELSE "config"

\* machBuild: filter, then start buildInstrument for every instrument
NestedMachBuild ==
    /\ ~exited /\ stage = "init" /\ command = "build"
    /\ targets' = FilteredInstruments
    /\ LET started == UNION { Subtree(<<targets'[k]>>) : k \in 1..Len(targets') }
       IN phase' = [ n \in AllNodes |->
                       IF n \in started THEN EnteredPhase(n) ELSE phase[n] ]
    /\ stage' = "running"
    /\ emitted' = <<>>
    /\ last' = Step("machBuild", <<>>, TRUE)
    /\ UNCHANGED << runVars, filter, outcome, events, calls, errorsOf, results, exited, exitCode,
                    watchVars >>

\* build(): config.json is read, the options are assembled, esbuild.build
\* is called
ConfigRead(n) ==
    /\ ~exited /\ phase[n] = "config"
    /\ phase' = [ phase EXCEPT ![n] = "bundling" ]
    /\ calls' = [ calls EXCEPT ![n] = Bump(calls[n]) ]
    /\ emitted' = << Event("build", n) >>
    /\ last' = Step("config", n, TRUE)
    /\ UNCHANGED << runVars, filter, outcome, events, stage, targets, errorsOf, results, exited,
                    exitCode, watchVars >>

\* buildInstrument after a fulfilled build(): buildComplete, result returned
NestedBuildThen(n) ==
    /\ phase' = [ phase EXCEPT ![n] = "fulfilled" ]
    /\ events' = [ events EXCEPT ![n] = Append(@, "buildComplete") ]
    /\ emitted' = << Event("buildComplete", n) >>
    /\ UNCHANGED errorsOf

\* a driver whose .catch returns the failure without logging it
NestedBuildCatchSilent(n) ==
    /\ phase' = [ phase EXCEPT ![n] = "fulfilled" ]
    /\ errorsOf' = [ errorsOf EXCEPT ![n] = n ]
    /\ emitted' = <<>>
    /\ UNCHANGED events

\* buildInstrument after a rejected build(): buildFailed, and the failure is
\* returned as the result
NestedBuildCatch(n) ==
    /\ phase' = [ phase EXCEPT ![n] = "fulfilled" ]
    /\ errorsOf' = [ errorsOf EXCEPT ![n] = n ]
    /\ events' = [ events EXCEPT ![n] = Append(@, "buildFailed") ]
    /\ emitted' = << Event("buildFailed", n) >>

\* the esbuild.build call made by build() settles
NestedBuildSettled(n, ok) ==
    /\ ~exited /\ phase[n] = "bundling"
    /\ last' = Step("build", n, ok)
    /\ outcome' = [ outcome EXCEPT ![n] = IF ok THEN "ok" ELSE "failed" ]
    /\ IF ok THEN NestedBuildThen(n) ELSE NestedBuildCatch(n)
    /\ UNCHANGED << runVars, filter, stage, targets, calls, results, exited, exitCode,
                    watchVars >>

\* a driver that returns the result of the last module with errors
LastFailedModule(n) ==
    LET failed == { j \in 1..ModuleCount(n) : HasErrors(Append(n, j)) }
    IN IF failed = {} THEN <<>>
       ELSE Append(n, CHOOSE j \in failed : \A i \in failed : j >= i)

\* the first module, in modules order, whose result has errors (or <<>>)
FirstFailedModule(n) ==
    LET failed == { j \in 1..ModuleCount(n) : HasErrors(Append(n, j)) }
    IN IF failed = {} THEN <<>>
       ELSE Append(n, CHOOSE j \in failed : \A i \in failed : j <= i)

\* a driver that awaits the module builds and then builds the parent whatever
\* their results are
AfterModulesIgnoringErrors(n) ==
    /\ phase' = [ phase EXCEPT ![n] = "config" ]
    /\ UNCHANGED << errorsOf, events >>

\* buildInstrument after Promise.all over the module builds: return the
\* first result with errors, otherwise go on to build()
AfterModules(n) ==
    IF FirstFailedModule(n) # <<>>
    THEN /\ phase' = [ phase EXCEPT ![n] = "fulfilled" ]
         /\ errorsOf' = [ errorsOf EXCEPT ![n] = errorsOf[FirstFailedModule(n)] ]
         /\ UNCHANGED events
    ELSE /\ phase' = [ phase EXCEPT ![n] = "config" ]
         /\ UNCHANGED << errorsOf, events >>

\* Promise.all over the module builds of n resolves
ModulesSettled(n) ==
    /\ ~exited /\ phase[n] = "modules"
    /\ \A m \in Modules(n) : phase[m] = "fulfilled"
    /\ AfterModules(n)
    /\ emitted' = <<>>
    /\ last' = Step("modules", n, TRUE)
    /\ UNCHANGED << runVars, filter, outcome, events, stage, targets, calls, results, exited, exitCode,
                    watchVars >>

\* the results array of the Promise.all in machBuild
NestedResults ==
    [ k \in 1..Len(targets) |->
        IF HasErrors(<<targets[k]>>) THEN "errors" ELSE "clean" ]

\* results.filter((res) => res.errors.length === 0).length
SuccessCount(res) == Cardinality({ k \in 1..Len(res) : res[k] = "clean" })

\* machBuild: the callback chained on Promise.all; the process ends with it
NestedBuildThenAll ==
    /\ ~exited /\ stage = "running" /\ command = "build"
    /\ \A n \in TargetNodes : phase[n] = "fulfilled"
    /\ results' = NestedResults
    /\ stage' = "reported"
    /\ exited' = TRUE
    /\ exitCode' = IF SuccessCount(NestedResults) < Len(targets) THEN 1 ELSE 0
    /\ emitted' = <<>>
    /\ last' = Step("buildCommand", <<>>, TRUE)
    /\ UNCHANGED << runVars, filter, outcome, events, targets, phase, calls, errorsOf, watchVars >>

NextNested ==
    \/ NestedMachBuild
    \/ \E n \in AllNodes : ConfigRead(n)
    \/ \E n \in AllNodes : \E ok \in BOOLEAN : NestedBuildSettled(n, ok)
    \/ \E n \in AllNodes : ModulesSettled(n)
    \/ NestedBuildThenAll

SpecNested == InitNested /\ [][NextNested]_vars

(***************************************************************************)
(* The revision of the aggregator that configures the process environment  *)
(* (src/unnamed/part_002): machBuild(conf, filter) calls                   *)
(* configureEnvironment and then drives the nested-module pipeline. Here   *)
(* the names of process.env are strings.                                   *)
(***************************************************************************)
\* value ?? fallback for a name of the environment
EnvOr(environment, name, fallback) ==
    IF name \in DOMAIN environment THEN environment[name] ELSE fallback

\* configureEnvironment(conf): the environment it leaves behind
configureEnvironment(conf, environment) ==
    Spread(environment,
           [ CONFIG_PATH |-> EnvOr(environment, "CONFIG_PATH",
                                   PathJoin(Cwd, << "m", "a", "c", "h", ".", "c", "o", "n", "f", "i", "g", ".", "j", "s" >>)),
             BUNDLES_DIR |-> EnvOr(environment, "BUNDLES_DIR",
                                   PathJoin(Cwd, << "b", "u", "n", "d", "l", "e", "s" >>)),
             OUTPUT_METAFILE |-> EnvOr(environment, "OUTPUT_METAFILE",
                                       << "f", "a", "l", "s", "e" >>),
             PACKAGE_NAME |-> conf.packageName,
             PACKAGE_DIR |-> PathJoin(Cwd, conf.packageDir) ])

\* environments a run can start in
ConfiguredEnvironPool ==
    { NoFields,
      [ BUNDLES_DIR |-> << "/", "o", "u", "t" >> ],
      [ CONFIG_PATH |-> << "/", "w", "/", "m", ".", "j", "s" >>,
        BUNDLES_DIR |-> << "/", "o", "u", "t" >>,
        OUTPUT_METAFILE |-> << "t", "r", "u", "e" >> ],
      [ CONFIG_PATH |-> << "/", "w", "/", "m", ".", "j", "s" >>,
        BUNDLES_DIR |-> << "/", "o", "u", "t" >>,
        OUTPUT_METAFILE |-> << "t", "r", "u", "e" >>,
        PACKAGE_NAME |-> << "P" >>,
        PACKAGE_DIR |-> << "/", "w", "/", "p", "k", "g" >> ] }

InitConfigured ==
    /\ caller = "api"
    /\ command = "build"
    /\ numConfigured \in 0..MaxInstruments
    /\ filter \in FilterOptions \cup { Undefined }
    /\ config = "valid"
    /\ stage = "init"
    /\ args = [ config |-> [ packageName |-> << "P" >>,
                             packageDir |-> << "p", "k", "g" >> ] ]
    /\ instrument = NoFields
    /\ accepted = "unparsed"
    /\ options = NoFields
    /\ buildResult = NoResult
    /\ file = [ path |-> <<>>, contents |-> <<>> ]
    /\ environ \in ConfiguredEnvironPool
    /\ loaded = NotLoaded
    /\ ParseIdle
    /\ InitIdle

\* machBuild(conf, filter): configureEnvironment, filter, then start
\* buildInstrument for every instrument
ConfiguredMachBuild ==
    /\ ~exited /\ stage = "init" /\ command = "build"
    /\ environ' = configureEnvironment(args.config, environ)
    /\ targets' = FilteredInstruments
    /\ LET started == UNION { Subtree(<<targets'[k]>>) : k \in 1..Len(targets') }
       IN phase' = [ n \in AllNodes |->
                       IF n \in started THEN EnteredPhase(n) ELSE phase[n] ]
    /\ stage' = "running"
    /\ emitted' = <<>>
    /\ last' = Step("machBuild", <<>>, TRUE)
    /\ UNCHANGED << caller, command, numConfigured, config, resolverVars, file, loaded,
                    parseVars, outputVars, raceVars, filter, outcome, events, calls, errorsOf, results,
                    exited, exitCode, watchVars >>

NextConfigured ==
    \/ ConfiguredMachBuild
    \/ \E n \in AllNodes : ConfigRead(n)
    \/ \E n \in AllNodes : \E ok \in BOOLEAN : NestedBuildSettled(n, ok)
    \/ \E n \in AllNodes : ModulesSettled(n)
    \/ NestedBuildThenAll

SpecConfigured == InitConfigured /\ [][NextConfigured]_vars

(***************************************************************************)
(* Options resolution on its own: one configuration entry is checked       *)
(* against the schema, its build options are resolved by either pipeline   *)
(* and handed to the bundler, which reports one diagnostic.                *)
(***************************************************************************)
\* config.esbuild records
OverridePool ==
    { [ entryPoints |-> << << "e", ".", "j", "s" >> >>,
        outfile |-> << "o", ".", "j", "s" >>,
        format |-> "esm", metafile |-> FALSE, bundle |-> FALSE ],
      [ logOverride |-> ("package.json" :> "silent") ],
      [ plugins |-> << "globalA", "globalB" >>,
        loader |-> [ png |-> "dataurl" ],
        external |-> << "/X/*" >> ],
      [ target |-> "es2020", logLevel |-> "info" ] }

\* MachConfig records: the global overrides are optional
ConfigPool == { NoFields } \cup { [ esbuild |-> o ] : o \in OverridePool }

\* MachArgs records: --bundles is optional
ArgsPool ==
    LET required == [ werror : BOOLEAN, minify : { FALSE }, outputMetafile : BOOLEAN,
                      skipSimulatorPackage : BOOLEAN, config : ConfigPool ]
    IN required \cup
       { Spread(a, [ bundles |-> << "/", "o", "u", "t" >> ]) : a \in required }

\* configuration entries of the settled-result pipeline, as written by a
\* user: module A declares resolve, module B does not
EntryPool ==
    LET ModA == [ name |-> << "A" >>, index |-> << "a", ".", "t", "s" >>,
                  resolve |-> << "@", "a" >> ]
        ModB == [ name |-> << "B" >>, index |-> << "b", ".", "t", "s" >> ]
        Pfd == [ name |-> << "P", "F", "D" >>, index |-> << "p", ".", "t", "s" >> ]
    IN { Pfd,
         Spread(Pfd, [ simulatorPackage |-> [ type |-> "react" ] ]),
         Spread(Pfd, [ modules |-> << ModA >> ]),
         Spread(Pfd, [ modules |-> << ModB >> ]),
         Spread(Pfd, [ simulatorPackage |-> [ type |-> "react" ],
                       modules |-> << ModA, ModB >> ]),
         [ index |-> << "p", ".", "t", "s" >> ],
         Spread(Pfd, [ modules |-> << [ name |-> << "A" >> ] >> ]) }

\* instruments of the nested-module pipeline
NestedEntryPool ==
    LET NestedPfd == [ name |-> << "P", "F", "D" >>,
                       directory |-> << "/", "w", "/", "p" >>,
                       input |-> << "p", ".", "t", "s" >> ]
        NestedMod == [ name |-> << "A" >>, directory |-> << "/", "w", "/", "a" >>,
                       import |-> << "@", "a" >> ]
    IN { NestedPfd,
         [ name |-> << "P", "F", "D" >>, directory |-> << "/", "w", "/", "p" >> ],
         Spread(NestedPfd, [ skipPackageSources |-> TRUE ]),
         Spread(NestedPfd, [ modules |-> << NestedMod >> ]),
         Spread(NestedPfd, [ modules |-> << NestedMod >>, skipPackageSources |-> TRUE ]) }

\* the category of the one diagnostic a build reports
DiagnosticPool == { "equals-nan", "package.json", "unsupported-css-nesting" }

InitOptions ==
    /\ caller = "api"
    /\ command = "build"
    /\ numConfigured = 0
    /\ filter = Undefined
    /\ config = "valid"
    /\ stage = "options"
    /\ args \in ArgsPool
    /\ instrument \in EntryPool \cup NestedEntryPool
    /\ accepted = "unparsed"
    /\ options = NoFields
    /\ buildResult = NoResult
    /\ LoaderIdle
    /\ ParseIdle
    /\ InitIdle

\* MachConfigSchema.safeParse on the entry; process.exit(1) when it fails
SafeParse ==
    /\ ~exited /\ stage = "options"
    /\ accepted = "unparsed" /\ ~Has(instrument, "directory")
    /\ IF InstrumentSchemaOk(instrument)
       THEN accepted' = "accepted" /\ UNCHANGED << exited, exitCode >>
       ELSE accepted' = "rejected" /\ exited' = TRUE /\ exitCode' = 1
    /\ last' = Step("safeParse", <<>>, InstrumentSchemaOk(instrument))
    /\ UNCHANGED << caller, command, numConfigured, filter, config, stage, args,
                    instrument, options, buildResult, targets, phase, calls,
                    outcome, errorsOf, events, results, watchVars, emitted, loaderVars,
                    parseVars, outputVars, raceVars >>

\* buildInstrument up to the bundler call: const options = getBuildOptions(...)
GetBuildOptions ==
    /\ ~exited /\ stage = "options"
    /\ accepted = "accepted" /\ buildResult.status = "none"
    /\ options' = getBuildOptions(args, instrument)
    /\ buildResult' = [ buildResult EXCEPT !.status = "pending" ]
    /\ last' = Step("getBuildOptions", <<>>, TRUE)
    /\ UNCHANGED << caller, command, numConfigured, filter, config, stage, args,
                    instrument, accepted, targets, phase, calls, outcome, errorsOf,
                    events, results, exited, exitCode, watchVars, emitted, loaderVars,
                    parseVars, outputVars, raceVars >>

\* build(instrument, logger, module) of the nested-module pipeline up to the
\* bundler call
NestedGetBuildOptions(module) ==
    /\ ~exited /\ stage = "options"
    /\ Has(instrument, "directory") /\ buildResult.status = "none"
    /\ options' = NestedBuildOptions(IF Has(args, "bundles") THEN args.bundles
                                     ELSE DefaultBundlesDir,
                                     OutputMetafileEnv(args) # <<>>, instrument, module)
    /\ buildResult' = [ buildResult EXCEPT !.status = "pending", !.module = module ]
    /\ last' = Step("nestedGetBuildOptions", <<>>, TRUE)
    /\ UNCHANGED << caller, command, numConfigured, filter, config, stage, args,
                    instrument, accepted, targets, phase, calls, outcome, errorsOf,
                    events, results, exited, exitCode, watchVars, emitted, loaderVars,
                    parseVars, outputVars, raceVars >>

\* esbuild.build(options) settles for a build whose one diagnostic has category
\* diag; the onEnd callbacks of the plugins in the list have run
EsbuildBuild(diag) ==
    /\ ~exited /\ stage = "options"
    /\ buildResult.status = "pending"
    /\ buildResult' = [ buildResult EXCEPT
                          !.status = EsbuildOutcome(options, diag),
                          !.diag = diag,
                          !.packaged = WritesPackage(options, instrument,
                                                     EsbuildOutcome(options, diag)),
                          !.metafile = WritesMetafile(options,
                                                      EsbuildOutcome(options, diag)) ]
    /\ last' = Step("esbuildBuild", <<>>, EsbuildOutcome(options, diag) = "succeeded")
    /\ UNCHANGED << caller, command, numConfigured, filter, config, stage, args,
                    instrument, accepted, options, targets, phase, calls, outcome,
                    errorsOf, events, results, exited, exitCode, watchVars, emitted, loaderVars,
                    parseVars, outputVars, raceVars >>

\* context.rebuild() of a watched instrument settles for a rebuild whose one
\* diagnostic has category diag: the onEnd callbacks run again; the instrument
\* is watched only when its initial build succeeded
ContextRebuild(diag) ==
    /\ ~exited /\ stage = "options"
    /\ buildResult.status \in { "succeeded", "failed" }
    /\ buildResult.rebuilds > 0 \/ buildResult.status = "succeeded"
    /\ buildResult.rebuilds < MaxRebuilds
    /\ buildResult' = [ buildResult EXCEPT
                          !.status = EsbuildOutcome(options, diag),
                          !.diag = diag,
                          !.packaged = WritesPackage(options, instrument,
                                                     EsbuildOutcome(options, diag)),
                          !.metafile = WritesMetafile(options,
                                                      EsbuildOutcome(options, diag)),
                          !.rebuilds = @ + 1 ]
    /\ last' = Step("contextRebuild", <<>>, EsbuildOutcome(options, diag) = "succeeded")
    /\ UNCHANGED << caller, command, numConfigured, filter, config, stage, args,
                    instrument, accepted, options, targets, phase, calls, outcome,
                    errorsOf, events, results, exited, exitCode, watchVars, emitted, loaderVars,
                    parseVars, outputVars, raceVars >>

NextOptions ==
    \/ SafeParse
    \/ GetBuildOptions
    \/ \E module \in BOOLEAN : NestedGetBuildOptions(module)
    \/ \E diag \in DiagnosticPool : EsbuildBuild(diag)
    \/ \E diag \in DiagnosticPool : ContextRebuild(diag)

SpecOptions == InitOptions /\ [][NextOptions]_vars

(***************************************************************************)
(* The environment plugin on its own: the bundler hands it one source file *)
(* under one environment.                                                  *)
(***************************************************************************)
\* source files: three pieces, each a reference or other code, joined by
\* ";" or a newline
ContentsPool ==
    LET RefA == EnvPrefix \o << "A" >>
        RefB == EnvPrefix \o << "B" >>
    IN { p1 \o s1 \o p2 \o s2 \o p3 :
           p1 \in { RefA, RefB, << "x" >> }, p2 \in { RefA, RefB, << "x" >> },
           p3 \in { RefA, RefB },
           s1 \in { << ";" >>, << "\n" >> }, s2 \in { << ";" >>, << "\n" >> } }

PathPool == { << "/", "w", "/", "a", ".", "t", "s" >>, << "/", "w", "/", "n", "o", "d", "e", "_", "m", "o", "d", "u", "l", "e", "s", "/", "a", ".", "t", "s" >> }

\* environments: A is undefined, numeric, boolean, short or long; B is
\* undefined or numeric
EnvironPool ==
    { NoFields,
      << "A" >> :> << "1" >>,
      << "A" >> :> << "t", "r", "u", "e" >>,
      << "A" >> :> << "d", "e", "v" >>,
      << "A" >> :> << "p", "r", "o", "d", "u", "c", "t", "i", "o", "n", "-", "b", "u", "i", "l", "d" >>,
      << "B" >> :> << "1" >>,
      (<< "A" >> :> << "1" >>) @@ (<< "B" >> :> << "1" >>) }

InitEnvironment ==
    /\ caller = "api"
    /\ command = "build"
    /\ numConfigured = 0
    /\ filter = Undefined
    /\ config = "valid"
    /\ stage = "loading"
    /\ file \in [ path : PathPool, contents : ContentsPool ]
    /\ environ \in EnvironPool
    /\ loaded = NotLoaded
    /\ ResolverIdle
    /\ ParseIdle
    /\ InitIdle

\* the bundler calls the plugin's onLoad callback for the file
OnLoad ==
    /\ stage = "loading" /\ ~loaded.done
    /\ loaded' = Spread(Loader(file.path, file.contents, environ), [ done |-> TRUE ])
    /\ last' = Step("onLoad", <<>>, ~Loader(file.path, file.contents, environ).threw)
    /\ UNCHANGED << caller, command, numConfigured, filter, config, stage,
                    resolverVars, file, environ, targets, phase, calls, outcome,
                    errorsOf, events, results, exited, exitCode, watchVars, emitted,
                    parseVars, outputVars, raceVars >>

NextEnvironment == OnLoad

SpecEnvironment == InitEnvironment /\ [][NextEnvironment]_vars

(***************************************************************************)
(* Validation of a configuration module on its own: the imported module is *)
(* a graph of objects, and MachConfigSchema.safeParse walks it, one call   *)
(* frame per object (InstrumentSchema is z.lazy and refers to itself).     *)
(***************************************************************************)
\* identities of the instrument objects of a configuration module
ObjectIds == 1..3

\* configuration modules: object 1 is the entry of config.instruments; the
\* modules field of an object lists objects by identity, so an object can
\* include itself
HeapPool ==
    LET lists == { << >> } \cup { << j >> : j \in ObjectIds }
                 \cup { << j, k >> : j, k \in ObjectIds }
        unnamed == { IF l = << >> THEN [ index |-> << "i" >> ]
                     ELSE [ index |-> << "i" >>, modules |-> l ] : l \in lists }
        named == { Spread(o, [ name |-> << "N" >> ]) : o \in unnamed }
    IN { << a, b, c >> : a \in named, b \in named, c \in named \cup unnamed }

\* the objects an object lists as modules
ModulesOf(h, i) == IF Has(h[i], "modules") THEN h[i].modules ELSE << >>

\* z.object({ name: z.string(), index: z.string(), ... }) on the object's own
\* fields
OwnFieldsOk(h, i) == Has(h[i], "name") /\ Has(h[i], "index")

InitValidate ==
    /\ caller = "cli"
    /\ command = "build"
    /\ numConfigured = 1
    /\ filter = Undefined
    /\ config = "valid"
    /\ stage = "hook"
    /\ heap \in HeapPool
    /\ stack = << >>
    /\ ResolverIdle
    /\ LoaderIdle
    /\ InitIdle

\* safeParse is called on the configuration: the schema is applied to the
\* entry of config.instruments
ParseStart ==
    /\ ~exited /\ stage = "hook" /\ accepted = "unparsed" /\ stack = << >>
    /\ stack' = << [ obj |-> 1, next |-> 1, ok |-> OwnFieldsOk(heap, 1) ] >>
    /\ stage' = "parsing"
    /\ last' = Step("parseStart", <<>>, TRUE)
    /\ UNCHANGED << caller, command, numConfigured, filter, config, args, instrument,
                    accepted, options, buildResult, loaderVars, outputVars, raceVars, heap, targets, phase,
                    calls, outcome, errorsOf, events, results, exited, exitCode,
                    watchVars, emitted >>

\* a schema that takes the entries of modules as they are
ParseDescendShallow ==
    /\ ~exited /\ stage = "parsing" /\ stack # << >>
    /\ LET top == stack[Len(stack)]
       IN /\ top.next <= Len(ModulesOf(heap, top.obj))
          /\ stack' = [ stack EXCEPT ![Len(stack)].next = @ + 1 ]
          /\ UNCHANGED << accepted, stage, exited, exitCode >>
          /\ last' = Step("parseDescend", <<>>, TRUE)
    /\ UNCHANGED << caller, command, numConfigured, filter, config, args, instrument,
                    options, buildResult, loaderVars, outputVars, raceVars, heap, targets, phase,
                    calls, outcome, errorsOf, events, results, watchVars, emitted >>

\* z.array(InstrumentSchema) reaches the next entry of modules and applies
\* the schema to it: one more frame, or RangeError when the stack is full;
\* the error leaves safeParse and the .then callback, and the .catch of the
\* hook ends the process
ParseDescend ==
    /\ ~exited /\ stage = "parsing" /\ stack # << >>
    /\ LET top == stack[Len(stack)]
       IN /\ top.next <= Len(ModulesOf(heap, top.obj))
          /\ IF Len(stack) < StackLimit
             THEN /\ stack' = Append(stack,
                                     [ obj |-> ModulesOf(heap, top.obj)[top.next],
                                       next |-> 1,
                                       ok |-> OwnFieldsOk(heap,
                                                  ModulesOf(heap, top.obj)[top.next]) ])
                  /\ UNCHANGED << accepted, stage, exited, exitCode >>
                  /\ last' = Step("parseDescend", <<>>, TRUE)
             ELSE /\ stack' = << >>
                  /\ accepted' = "threw"
                  /\ stage' = "aborted"
                  /\ exited' = TRUE /\ exitCode' = 1
                  /\ last' = Step("parseDescend", <<>>, FALSE)
    /\ UNCHANGED << caller, command, numConfigured, filter, config, args, instrument,
                    options, buildResult, loaderVars, outputVars, raceVars, heap, targets, phase,
                    calls, outcome, errorsOf, events, results, watchVars, emitted >>

\* the schema has been applied to every entry of modules of the object on
\* top: its call returns; the outermost return is the result of safeParse,
\* and process.exit(1) follows when it is not a success
ParseReturn ==
    /\ ~exited /\ stage = "parsing" /\ stack # << >>
    /\ LET top == stack[Len(stack)]
           rest == SubSeq(stack, 1, Len(stack) - 1)
       IN /\ top.next > Len(ModulesOf(heap, top.obj))
          /\ IF rest # << >>
             THEN /\ stack' = [ rest EXCEPT ![Len(rest)].next = @ + 1,
                                            ![Len(rest)].ok = @ /\ top.ok ]
                  /\ UNCHANGED << accepted, stage, exited, exitCode >>
             ELSE /\ stack' = << >>
                  /\ IF top.ok
                     THEN /\ accepted' = "accepted" /\ stage' = "init"
                          /\ UNCHANGED << exited, exitCode >>
                     ELSE /\ accepted' = "rejected" /\ stage' = "aborted"
                          /\ exited' = TRUE /\ exitCode' = 1
          /\ last' = Step("parseReturn", <<>>, top.ok)
    /\ UNCHANGED << caller, command, numConfigured, filter, config, args, instrument,
                    options, buildResult, loaderVars, outputVars, raceVars, heap, targets, phase,
                    calls, outcome, errorsOf, events, results, watchVars, emitted >>

NextValidate ==
    \/ ParseStart
    \/ ParseDescend
    \/ ParseReturn

\* safeParse is synchronous code: once called it runs until it returns or throws
SpecValidate == InitValidate /\ [][NextValidate]_vars /\ WF_vars(NextValidate)

(***************************************************************************)
(* The output files of one run: config.instruments holds two entries, the  *)
(* configuration is validated, and every build the pipeline runs for it    *)
(* succeeds and writes its output file.                                    *)
(***************************************************************************)
\* the module map handed to the resolve plugin by build(): each module's
\* import name is sent to the module bundle under its name
NestedResolveMap(bundlesDir, instr) ==
    [ key \in { (IF Has(instr.modules[i], "import") THEN instr.modules[i].import
                 ELSE Undefined) : i \in 1..Len(instr.modules) } |->
        LET winner == CHOOSE i \in 1..Len(instr.modules) :
                        /\ (IF Has(instr.modules[i], "import")
                            THEN instr.modules[i].import ELSE Undefined) = key
                        /\ \A j \in 1..Len(instr.modules) :
                               (IF Has(instr.modules[j], "import")
                                THEN instr.modules[j].import ELSE Undefined) = key
                                   => j <= i
        IN PathJoin3(bundlesDir, instr.modules[winner].name, ModuleMjs) ]

\* InstrumentSchema of the nested-module pipeline: name and directory are
\* strings, modules an array of InstrumentSchema when given
RECURSIVE NestedInstrumentSchemaOk(_)
NestedInstrumentSchemaOk(entry) ==
    /\ Has(entry, "name")
    /\ Has(entry, "directory")
    /\ Has(entry, "modules") =>
           \A i \in 1..Len(entry.modules) : NestedInstrumentSchemaOk(entry.modules[i])

\* configurations of the settled-result pipeline: two entries
InstrumentsPool ==
    LET M == [ name |-> << "M" >>, index |-> << "m", ".", "t", "s" >>,
               resolve |-> << "@", "m" >> ]
        entries == { [ name |-> << "A" >>, index |-> << "a", ".", "t", "s" >> ],
                     [ name |-> << "B" >>, index |-> << "b", ".", "t", "s" >> ],
                     [ name |-> << "A" >>, index |-> << "b", ".", "t", "s" >> ],
                     [ name |-> << "A" >>, index |-> << "a", ".", "t", "s" >>,
                       modules |-> << M >> ],
                     [ index |-> << "a", ".", "t", "s" >> ] }
    IN { << a, b >> : a \in entries, b \in entries }

\* configurations of the nested-module pipeline: two entries
NestedInstrumentsPool ==
    LET M == [ name |-> << "M" >>, directory |-> << "/", "w", "/", "m" >>,
               import |-> << "@", "m" >> ]
        entries == { [ name |-> << "A" >>, directory |-> << "/", "w", "/", "a" >> ],
                     [ name |-> << "B" >>, directory |-> << "/", "w", "/", "b" >> ],
                     [ name |-> << "A" >>, directory |-> << "/", "w", "/", "b" >> ],
                     [ name |-> << "A" >>, directory |-> << "/", "w", "/", "a" >>,
                       modules |-> << M >> ],
                     [ name |-> << "B" >>, directory |-> << "/", "w", "/", "b" >>,
                       modules |-> << M >> ] }
    IN { << a, b >> : a \in entries, b \in entries }

\* the configuration is one of the nested-module pipeline
IsNested == Has(heap[1], "directory")

\* the bundles directory of the run
BundlesDir == IF Has(args, "bundles") THEN args.bundles ELSE DefaultBundlesDir

\* the entries a build can be run for: the entries of config.instruments
\* and their modules, named by their position
Entries ==
    { << i >> : i \in 1..Len(heap) }
    \cup UNION { { << i, k >> : k \in 1..Len(IF Has(heap[i], "modules")
                                              THEN heap[i].modules ELSE << >>) } :
                   i \in 1..Len(heap) }

EntryAt(e) == IF Len(e) = 1 THEN heap[e[1]] ELSE heap[e[1]].modules[e[2]]

\* what a successful build of entry e writes: the bundler's output file
OutputOf(e) ==
    LET o == IF IsNested
             THEN NestedBuildOptions(BundlesDir, args.outputMetafile, EntryAt(e),
                                     Len(e) > 1)
             ELSE getBuildOptions(args, EntryAt(e))
    IN [ entry |-> e, file |-> o.outfile, format |-> o.format ]

InitOutputs ==
    /\ caller = "cli"
    /\ command = "build"
    /\ numConfigured = 2
    /\ filter = Undefined
    /\ config = "valid"
    /\ stage = "hook"
    /\ args \in { a \in ArgsPool : /\ ~a.werror /\ ~a.outputMetafile
                                  /\ ~a.skipSimulatorPackage /\ a.config = NoFields }
    /\ instrument = NoFields
    /\ accepted = "unparsed"
    /\ options = NoFields
    /\ buildResult = NoResult
    /\ heap \in InstrumentsPool \cup NestedInstrumentsPool
    /\ stack = << >>
    /\ LoaderIdle
    /\ InitIdle

\* MachConfigSchema.safeParse on the configuration: every entry of
\* instruments has to pass InstrumentSchema; process.exit(1) otherwise
ValidateConfig ==
    /\ ~exited /\ stage = "hook" /\ accepted = "unparsed"
    /\ LET ok == \A i \in 1..Len(heap) :
                     IF IsNested THEN NestedInstrumentSchemaOk(heap[i])
                     ELSE InstrumentSchemaOk(heap[i])
       IN /\ IF ok
             THEN /\ accepted' = "accepted" /\ stage' = "running"
                  /\ UNCHANGED << exited, exitCode >>
             ELSE /\ accepted' = "rejected" /\ stage' = "aborted"
                  /\ exited' = TRUE /\ exitCode' = 1
          /\ last' = Step("validateConfig", <<>>, ok)
    /\ UNCHANGED << caller, command, numConfigured, filter, config, args, instrument,
                    options, buildResult, loaderVars, parseVars, outputVars, raceVars, targets,
                    phase, calls, outcome, errorsOf, events, results, watchVars,
                    emitted >>

\* a successful bundler run of buildInstrument(args, instrument, logger) for
\* an entry of config.instruments
BuildWrites(e) ==
    /\ ~exited /\ stage = "running" /\ ~IsNested
    /\ e \in Entries /\ Len(e) = 1
    /\ \A w \in written : w.entry # e
    /\ written' = written \cup { OutputOf(e) }
    /\ last' = Step("buildWrites", e, TRUE)
    /\ UNCHANGED << caller, command, numConfigured, filter, config, stage,
                    resolverVars, loaderVars, parseVars, resolved, raceVars, targets, phase, calls,
                    outcome, errorsOf, events, results, exited, exitCode, watchVars,
                    emitted >>

\* a successful bundler run of build(instrument, logger, module) for an
\* entry or one of its modules; an entry is built after its modules
NestedBuildWrites(e) ==
    /\ ~exited /\ stage = "running" /\ IsNested
    /\ e \in Entries
    /\ \A w \in written : w.entry # e
    /\ \A m \in Entries :
           (Len(m) > Len(e) /\ m[1] = e[1]) => \E w \in written : w.entry = m
    /\ written' = written \cup { OutputOf(e) }
    /\ last' = Step("nestedBuildWrites", e, TRUE)
    /\ UNCHANGED << caller, command, numConfigured, filter, config, stage,
                    resolverVars, loaderVars, parseVars, resolved, raceVars, targets, phase, calls,
                    outcome, errorsOf, events, results, exited, exitCode, watchVars,
                    emitted >>

NextOutputs ==
    \/ ValidateConfig
    \/ \E e \in Entries : BuildWrites(e)
    \/ \E e \in Entries : NestedBuildWrites(e)

SpecOutputs == InitOutputs /\ [][NextOutputs]_vars

(***************************************************************************)
(* Path resolution on its own: the bundler reports a manifest input path   *)
(* and resolveFilename is applied to it, then to its own result.           *)
(***************************************************************************)
\* the segments of manifest input paths
SegmentPool == { << "w" >>, << "w", "a" >>, << "a" >>, << ".", "." >>, << "." >> }

RECURSIVE SegmentLists(_)
\* the lists of 1 to n segments
SegmentLists(n) ==
    IF n = 0 THEN { << >> }
    ELSE LET shorter == SegmentLists(n - 1)
         IN shorter \cup { Append(l, seg) : l \in shorter, seg \in SegmentPool }

RECURSIVE JoinRelative(_)
\* the segments joined by "/"
JoinRelative(segs) ==
    IF Len(segs) = 1 THEN segs[1]
    ELSE segs[1] \o << "/" >> \o JoinRelative(Tail(segs))

\* manifest input paths: relative and absolute
InputPaths ==
    LET relative == { JoinRelative(l) : l \in SegmentLists(MaxSegments) \ { << >> } }
    IN relative \cup { << "/" >> \o p : p \in relative }

InitResolve ==
    /\ caller = "api"
    /\ command = "watch"
    /\ numConfigured = 0
    /\ filter = Undefined
    /\ config = "valid"
    /\ stage = "resolving"
    /\ ResolverIdle
    /\ LoaderIdle
    /\ ParseIdle
    /\ InitIdle

\* a key of result.metafile.inputs
ManifestInput(input) ==
    /\ stage = "resolving" /\ resolved = << >>
    /\ resolved' = << input >>
    /\ last' = Step("manifestInput", <<>>, TRUE)
    /\ UNCHANGED << caller, command, numConfigured, filter, config, stage,
                    resolverVars, loaderVars, parseVars, written, raceVars, targets, phase, calls,
                    outcome, errorsOf, events, results, exited, exitCode, watchVars,
                    emitted >>

\* resolveFilename applied to the path, or to the result of the last call
Resolve ==
    /\ stage = "resolving" /\ resolved # << >>
    /\ Len(resolved) <= MaxResolves
    /\ resolved' = Append(resolved, resolveFilename(resolved[Len(resolved)]))
    /\ last' = Step("resolve", <<>>, TRUE)
    /\ UNCHANGED << caller, command, numConfigured, filter, config, stage,
                    resolverVars, loaderVars, parseVars, written, raceVars, targets, phase, calls,
                    outcome, errorsOf, events, results, exited, exitCode, watchVars,
                    emitted >>

NextResolve ==
    \/ \E input \in InputPaths : ManifestInput(input)
    \/ Resolve

SpecResolve == InitResolve /\ [][NextResolve]_vars

(***************************************************************************)
(* Properties of the nested-module build pipeline (SpecNested).            *)
(***************************************************************************)
\* the modules of n whose build has returned a result with errors
FailedModules(n) ==
    { m \in Modules(n) : phase[m] = "fulfilled" /\ HasErrors(m) }

\* C1: when a submodule's build has failed, the bundler is never invoked for
\* the parent instrument, the parent is still waiting for its modules or has
\* returned, and the result it returns is a failure carrying the errors of a
\* failed submodule.
C1_SubmoduleFailureSkipsParent ==
    \A n \in AllNodes :
        FailedModules(n) # {} =>
            /\ calls[n] = 0
            /\ outcome[n] = "none"
            /\ phase[n] \in { "modules", "fulfilled" }
            /\ phase[n] = "fulfilled" =>
                   /\ HasErrors(n)
                   /\ \E m \in FailedModules(n) : errorsOf[n] = errorsOf[m]

\* C1 witness: the run has ended, an instrument with a failed submodule was
\* reported as failed with that submodule's errors, its own bundle never run
C1_Witness ==
    /\ stage = "reported"
    /\ \E n \in TargetNodes :
           /\ FailedModules(n) # {}
           /\ phase[n] = "fulfilled"
           /\ errorsOf[n] \in Modules(n)
           /\ calls[n] = 0

(***************************************************************************)
(* Properties of the settled-result pipeline (Spec).                       *)
(***************************************************************************)
\* C2: the bundler is invoked for an instrument only after every one of its
\* submodules, at every depth, has completed a build successfully.
C2_ParentAfterSubmodules ==
    \A n \in AllNodes :
        calls[n] > 0 =>
            \A m \in Submodules(n) : phase[m] = "fulfilled" /\ ~HasErrors(m)

\* C3: in a build run every targeted instrument's build is started, none is
\* cancelled by another one's failure, each settles with its own outcome, and
\* the aggregate result has a fulfilled entry for every instrument that built
\* successfully, wherever the failing instrument stands in the list.
C3_FailureIsolated ==
    (command = "build" /\ stage \in { "running", "settled", "reported" }) =>
        /\ \A n \in TargetNodes :
               /\ calls[n] = 1
               /\ phase[n] \in { "bundling", "fulfilled", "rejected" }
               /\ (phase[n] = "bundling") <=> (outcome[n] = "none")
               /\ (phase[n] = "bundling" /\ ~exited) =>
                      /\ ENABLED BuildSettled(n, TRUE)
                      /\ ENABLED BuildSettled(n, FALSE)
        /\ stage \in { "settled", "reported" } =>
               /\ Len(results) = Len(targets)
               /\ \A k \in 1..Len(targets) :
                      outcome[<<targets[k]>>] = "ok" => results[k] = "fulfilled"

\* C3 witness: the first instrument failed, the second one built and is
\* reported as fulfilled
C3_Witness ==
    /\ command = "build" /\ stage = "settled"
    /\ Len(targets) = 2
    /\ outcome[<<targets[1]>>] = "failed"
    /\ outcome[<<targets[2]>>] = "ok"
    /\ results[2] = "fulfilled"

\* C4: the aggregate result of machBuild and of machWatch has exactly one
\* entry per targeted instrument, in configuration order; an entry is
\* fulfilled exactly when that instrument's build succeeded and rejected
\* otherwise, so successes and failures add up to the number of targets.
C4_OneEntryPerTarget ==
    stage \in { "settled", "reported" } =>
        /\ Len(results) = Len(targets)
        /\ \A j, k \in 1..Len(targets) : j < k => targets[j] < targets[k]
        /\ \A k \in 1..Len(targets) :
               /\ results[k] \in { "fulfilled", "rejected" }
               /\ (results[k] = "fulfilled") <=> (outcome[<<targets[k]>>] = "ok")
               /\ (results[k] = "rejected") <=> (outcome[<<targets[k]>>] = "failed")
        /\ NumSuccess + Cardinality({ k \in 1..Len(results) : results[k] = "rejected" })
               = Len(targets)

\* C4 witness: a watch run over two instruments, the first one initialised,
\* the second one failed
C4_Witness ==
    /\ command = "watch" /\ stage = "settled"
    /\ results = << "fulfilled", "rejected" >>

C6_ExitCodeIffFailure ==
    (exited /\ command = "build") =>
        ((exitCode # 0) <=>
             (\E n \in TargetNodes : outcome[n] = "failed" \/ HasErrors(n)))

\* C7: an instrument whose initial build failed in watch mode has no watcher
\* and no watch set, no rebuild of it is ever started, its initial build was
\* attempted once, and its entry in the aggregate result is rejected.
C7_FailedInitNeverWatches ==
    \A n \in AllNodes :
        (command = "watch" /\ outcome[n] = "failed") =>
            /\ phase[n] = "rejected"
            /\ ~subscribed[n]
            /\ watched[n] = {}
            /\ inflight[n] = 0
            /\ calls[n] = 1
            /\ \A f \in InputFiles : ~ENABLED Change(n, ResolvedName[f])
            /\ \A k \in 1..Len(results) :
                   targets[k] = n[1] => results[k] = "rejected"

\* C7 witness: the watch run has settled with a rejected entry for an
\* instrument whose initial build failed
C7_Witness ==
    /\ command = "watch" /\ stage = "settled"
    /\ \E k \in 1..Len(results) :
           /\ outcome[<<targets[k]>>] = "failed"
           /\ results[k] = "rejected"
           /\ ~subscribed[<<targets[k]>>]

\* C8 as stated: once one instrument's watch initialisation has failed, every
\* other instrument whose initial build succeeded is subscribed and the
\* process is alive to rebuild it.
C8_OthersKeepWatching ==
    \A n, m \in AllNodes :
        (command = "watch" /\ outcome[n] = "failed" /\ outcome[m] = "ok") =>
            (subscribed[m] /\ ~exited)

\* C8, amended: an instrument whose initial build succeeded stays subscribed to
\* a non-empty watch set whatever happens to the others; for a caller of
\* machWatch the process is never ended and a change of a watched file starts
\* a rebuild; the watch command ends the process only in its callback, after
\* all initial builds have settled, and with exit code 1 exactly when one of
\* them was rejected, which ends every instrument's watch session.
C8_OthersWatchUntilExit ==
    \A m \in AllNodes :
        (command = "watch" /\ outcome[m] = "ok") =>
            /\ subscribed[m]
            /\ watched[m] # {}
            /\ caller = "api" => ~exited
            /\ exited => (caller = "cli" /\ stage = "reported" /\ exitCode = 1
                            /\ SomeRejected)
            /\ (caller = "cli" /\ stage = "reported" /\ SomeRejected) => exited
            /\ (~exited /\ inflight[m] < MaxInFlight) =>
                   \A f \in watched[m] : ENABLED Change(m, f)

\* C8 witness: called as a library, one instrument failed to initialise and
\* another one has since been rebuilt after a change
C8_Witness ==
    /\ caller = "api" /\ command = "watch" /\ stage = "settled"
    /\ \E n, m \in TargetNodes :
           /\ outcome[n] = "failed"
           /\ outcome[m] = "ok"
           /\ last = Step("rebuild", m, TRUE)

\* C9: whenever an instrument is watched and none of its rebuilds is in
\* flight, its watch set is the set of resolved input paths of the manifest of
\* its most recent successful build.
C9_WatchSetIsLastManifest ==
    \A n \in AllNodes :
        (subscribed[n] /\ inflight[n] = 0) =>
            watched[n] = { resolveFilename(f) : f \in lastInputs[n] }

\* C9 witness: a rebuild succeeded with a manifest holding a namespaced input
\* and no rebuild is in flight
C9_Witness ==
    \E n \in AllNodes :
        /\ last = Step("rebuild", n, TRUE)
        /\ inflight[n] = 0
        /\ lastInputs[n] = { FileA, FileNs }
        /\ watched[n] = { PathResolve(FileA), PathResolve(<<"d">>) }

\* C10: the step in which a rebuild fails hands exactly one build-failed event
\* to the logger and changes neither the subscription nor any watch set nor
\* the manifest on record; afterwards the instrument is still subscribed and
\* a change of any watched file starts a further rebuild.
C10_FailedRebuildKeepsWatching ==
    /\ [][ \A n \in AllNodes :
              last' = Step("rebuild", n, FALSE) =>
                  /\ emitted' = << Event("buildFailed", n) >>
                  /\ subscribed[n] /\ subscribed' = subscribed
                  /\ watched' = watched
                  /\ lastInputs' = lastInputs
                  /\ ~exited' ]_vars
    /\ [] ( \A n \in AllNodes :
              last = Step("rebuild", n, FALSE) =>
                  /\ subscribed[n]
                  /\ watched[n] # {}
                  /\ (~exited /\ inflight[n] < MaxInFlight) =>
                         \A f \in watched[n] : ENABLED Change(n, f) )

\* C10 witness: a rebuild has just failed, none is in flight and the
\* instrument is still subscribed to the files of its last good manifest
C10_Witness ==
    \E n \in AllNodes :
        /\ last = Step("rebuild", n, FALSE)
        /\ inflight[n] = 0
        /\ subscribed[n]
        /\ watched[n] = BuiltFiles(lastInputs[n])
        /\ lastInputs[n] # {}

\* C11: the step that handles a change notification logs change-detected
\* first and then calls the incremental rebuild of the instrument's context
\* exactly once; it creates no context and starts no build of its own, so the
\* instrument's context is the one of the initial build; every change of a
\* watched file is handled while the process runs.
C11_ChangeRebuildsRetainedContext ==
    \A n \in AllNodes :
        /\ last = Step("change", n, TRUE) =>
               /\ emitted = << Event("changeDetected", n), Event("rebuild", n) >>
               /\ inflight[n] >= 1
               /\ phase[n] = "fulfilled"
               /\ calls[n] = 1
        /\ (subscribed[n] /\ ~exited /\ inflight[n] < MaxInFlight) =>
               \A f \in watched[n] : ENABLED Change(n, f)

\* C11 witness: a second change was handled while the rebuild started by a
\* first one is still running
C11_Witness ==
    \E n \in AllNodes :
        /\ last = Step("change", n, TRUE)
        /\ inflight[n] = 2
        /\ calls[n] = 1

\* C12: a build driver invocation calls the bundler at most once for its
\* instrument; after a failed call it is in its failed outcome, the failing
\* step made no further bundler call, and no step of the driver is left.
C12_OneBundlerCallPerInvocation ==
    command = "build" =>
        \A n \in AllNodes :
            /\ calls[n] <= 1
            /\ outcome[n] = "failed" =>
                   /\ calls[n] = 1
                   /\ phase[n] = "rejected"
                   /\ ~ENABLED BuildSettled(n, TRUE)
                   /\ ~ENABLED BuildSettled(n, FALSE)
            /\ last = Step("build", n, FALSE) =>
                   emitted = << Event("buildFailed", n) >>

\* C12 witness: the run has settled after a bundler call failed
C12_Witness ==
    /\ command = "build" /\ stage = "settled"
    /\ \E n \in TargetNodes : outcome[n] = "failed" /\ calls[n] = 1

C19_BadConfigNeverBuilds ==
    config # "valid" =>
        /\ stage \in { "hook", "aborted" }
        /\ stage = "aborted" <=> exited
        /\ exited => exitCode = 1
        /\ targets = <<>> /\ results = <<>>
        /\ \A n \in AllNodes :
               calls[n] = 0 /\ phase[n] = "idle" /\ ~subscribed[n]
        /\ ~ENABLED MachBuild
        /\ ~ENABLED MachWatch

\* C19 witness: the hook has ended a run whose configuration fails validation
C19_Witness ==
    /\ config = "invalid"
    /\ last = Step("preAction", <<>>, FALSE)
    /\ exited /\ exitCode = 1

(***************************************************************************)
(* Properties of the build options (SpecOptions).                          *)
(***************************************************************************)
\* the options of the settled-result pipeline have been resolved
Resolved == accepted = "accepted" /\ buildResult.status # "none"

\* the options of the nested-module pipeline have been resolved
NestedResolved == Has(instrument, "directory") /\ buildResult.status # "none"

\* C14: whatever the global override record holds, the options handed to the
\* bundler have the instrument's index as their only entry point, the output
\* file bundle.js under <bundles directory>/<instrument name>, format iife,
\* metafile generation on and bundling on.
C14_FixedFieldsNotOverridable ==
    Resolved =>
        /\ options.entryPoints = << instrument.index >>
        /\ options.outfile =
               (IF Has(args, "bundles") THEN << "/", "o", "u", "t", "/" >>
                ELSE << "b", "u", "n", "d", "l", "e", "s", "/" >>)
               \o instrument.name \o << "/" >> \o BundleJs
        /\ options.format = "iife"
        /\ options.metafile = TRUE
        /\ options.bundle = TRUE

\* C14 witness: options resolved under a global override record that sets
\* the five fields itself
C14_Witness ==
    /\ Resolved
    /\ last.act = "getBuildOptions"
    /\ Has(args.config, "esbuild")
    /\ { "entryPoints", "outfile", "format", "metafile", "bundle" }
           \subseteq DOMAIN args.config.esbuild
    /\ args.config.esbuild.format = "esm"

\* C15: with --werror, a build whose diagnostic is in ESBUILD_WARNINGS ends
\* as failed, under every configuration.
C15_WerrorFailsListedWarnings ==
    ( /\ Resolved
      /\ args.werror
      /\ buildResult.diag \in ESBUILD_WARNINGS )
        => buildResult.status = "failed"

\* the position of a plugin in the order named by the plugin-assembly rule;
\* 0 for the plugins the rule does not place
PluginRank(name) ==
    CASE name = "mach-environment" -> 1
      [] name \in { "globalA", "globalB" } -> 2
      [] name \in { "mach-write-metafile", "writeMetafile" } -> 4
      [] name = "resolve" -> 5
      [] name = "includeCSS" -> 6
      [] name \in PackagingPlugins -> 7
      [] OTHER -> 0

\* the global plugins of a plugin list, in list order
RECURSIVE GlobalPluginsOf(_)
GlobalPluginsOf(plugins) ==
    IF plugins = <<>> THEN <<>>
    ELSE IF PluginRank(Head(plugins)) = 2
         THEN << Head(plugins) >> \o GlobalPluginsOf(Tail(plugins))
         ELSE GlobalPluginsOf(Tail(plugins))

\* C16: in every plugin list handed to the bundler the environment plugin,
\* when present, is first; the global plugins follow in configuration order;
\* then the metafile writer, then resolve and includeCSS, and the packaging
\* plugin is last; no plugin occurs twice.
C16_PluginOrder ==
    buildResult.status # "none" =>
        LET plugins == options.plugins
        IN /\ \A i, j \in 1..Len(plugins) :
                  ( i < j /\ PluginRank(plugins[i]) > 0 /\ PluginRank(plugins[j]) > 0 )
                      => PluginRank(plugins[i]) <= PluginRank(plugins[j])
           /\ \A i, j \in 1..Len(plugins) : i # j => plugins[i] # plugins[j]
           /\ Resolved => plugins[1] = "mach-environment"
           /\ Resolved => GlobalPluginsOf(plugins) =
                              (IF Has(Overrides(args), "plugins")
                               THEN Overrides(args).plugins ELSE <<>>)
           /\ \A i \in 1..Len(plugins) :
                  plugins[i] \in PackagingPlugins => i = Len(plugins)

\* C16 witness: a list that holds the environment plugin, two global plugins,
\* the metafile writer and the packaging plugin
C16_Witness ==
    /\ Resolved
    /\ last.act = "getBuildOptions"
    /\ options.plugins = << "mach-environment", "globalA", "globalB",
                            "mach-write-metafile", "mach-write-package-sources" >>

\* C17: the packaging plugin is in the plugin list exactly when the
\* instrument declares packaging, the run arguments do not skip packaging,
\* and the build is not a submodule build; a submodule build writes no
\* simulator package.
C17_PackagingIffDeclaredAndTopLevel ==
    buildResult.status # "none" =>
        /\ (\E i \in 1..Len(options.plugins) : options.plugins[i] \in PackagingPlugins)
               <=> ( /\ IF Has(instrument, "directory")
                        THEN ~(Has(instrument, "skipPackageSources")
                               /\ instrument.skipPackageSources)
                        ELSE Has(instrument, "simulatorPackage")
                     /\ ~(~Has(instrument, "directory") /\ args.skipSimulatorPackage)
                     /\ ~buildResult.module )
        /\ buildResult.module => ~buildResult.packaged

\* C17 witness: a finished, successful submodule build of an instrument that
\* does not opt out of packaging
C17_Witness ==
    /\ NestedResolved /\ buildResult.module
    /\ ~Has(instrument, "skipPackageSources")
    /\ buildResult.status = "succeeded"
    /\ last.act = "esbuildBuild"

\* C20: in an entry accepted by validation every module declares resolve, and
\* no alias is keyed by String(undefined).
C20_SubmodulesDeclareResolve ==
    accepted = "accepted" =>
        /\ Has(instrument, "modules") =>
               \A i \in 1..Len(instrument.modules) : Has(instrument.modules[i], "resolve")
        /\ Has(options, "alias") => Undefined \notin DOMAIN options.alias

(***************************************************************************)
(* Properties of the environment plugin (SpecEnvironment).                 *)
(***************************************************************************)
\* the references of the file to names the environment does not define
UndefinedReferences ==
    SelectSeq(MatchAll(file.contents, 0),
              LAMBDA match : EnvValue(environ, match.variable) = Null)

\* the 1-based line of the source file that holds offset index
LineOf(s, index) == 1 + Cardinality({ i \in 1..index : s[i] = "\n" })

\* the 0-based column of offset index in its line of the source file
ColumnOf(s, index) ==
    LET breaks == { i \in 1..index : s[i] = "\n" }
    IN IF breaks = {} THEN index
       ELSE index - (CHOOSE i \in breaks : \A j \in breaks : j <= i)

\* C18: for a file the plugin substitutes in, the load does not fail and
\* returns exactly one warning per reference to an undefined name, in order,
\* each carrying the file and the line and column of that reference in the
\* source file.
C18_UndefinedReferenceWarnedAtItsPosition ==
    ( loaded.done /\ IndexOf(file.path, NodeModules) < 0 ) =>
        /\ ~loaded.threw
        /\ Len(loaded.warnings) = Len(UndefinedReferences)
        /\ \A k \in 1..Len(loaded.warnings) :
               /\ loaded.warnings[k].file = file.path
               /\ loaded.warnings[k].line =
                      LineOf(file.contents, UndefinedReferences[k].index)
               /\ loaded.warnings[k].column =
                      ColumnOf(file.contents, UndefinedReferences[k].index)

(***************************************************************************)
(* Properties of configuration validation (SpecValidate).                  *)
(***************************************************************************)
\* the objects reached from object i through at least one modules entry
ReachedFrom(i) ==
    LET step(S) == S \cup UNION { { ModulesOf(heap, j)[k] :
                                     k \in 1..Len(ModulesOf(heap, j)) } : j \in S }
        first == { ModulesOf(heap, i)[k] : k \in 1..Len(ModulesOf(heap, i)) }
    IN step(step(step(first)))

\* the instrument tree of the configuration has a cycle through modules
Cyclic ==
    heap # << >> /\ \E i \in {1} \cup ReachedFrom(1) : i \in ReachedFrom(i)

C22_RunLeavesProcessStateUnchanged ==
    [][ environ' = environ /\ args' = args /\ config' = config ]_vars

(***************************************************************************)
(* Properties of the output files (SpecOutputs).                           *)
(***************************************************************************)
\* C23: in an accepted configuration no file is written by the builds of two
\* different entries.
C23_OutputFilesNotShared ==
    accepted = "accepted" =>
        \A w1, w2 \in written : w1.entry # w2.entry => w1.file # w2.file

(***************************************************************************)
(* Properties of path resolution (SpecResolve).                            *)
(***************************************************************************)
\* C24: resolving a path that resolveFilename returned gives the same path.
C24_ResolveIdempotent ==
    \A k \in 3..Len(resolved) : resolved[k] = resolved[k - 1]

\* the path a parent's build resolves the import name of its k-th module to
AliasTarget(parent, k) ==
    IF IsNested
    THEN NestedResolveMap(BundlesDir, parent)[parent.modules[k].import]
    ELSE getBuildOptions(args, parent).alias[AliasKey(parent.modules[k])]

\* C25: a submodule build has format esm and writes
\* <bundlesDir>/<name>/module/module.mjs, a top-level build has format iife
\* and writes <bundlesDir>/<name>/bundle.js, and when a parent has been built
\* the path its alias gives for each module is the file that module's build
\* wrote.
C25_AliasPointsAtSubmoduleArtifact ==
    \A w \in written :
        /\ w.format = IF Len(w.entry) > 1 THEN "esm" ELSE "iife"
        /\ w.file = PathJoin3(BundlesDir, EntryAt(w.entry).name,
                              IF Len(w.entry) > 1 THEN ModuleMjs ELSE BundleJs)
        /\ ( Len(w.entry) = 1 /\ Has(EntryAt(w.entry), "modules") ) =>
               \A k \in 1..Len(EntryAt(w.entry).modules) :
                   \E v \in written :
                       /\ v.entry = w.entry \o << k >>
                       /\ v.file = AliasTarget(EntryAt(w.entry), k)

(***************************************************************************)
(* Concurrency of sibling builds (SpecNested) and of rebuilds (Spec).      *)
(***************************************************************************)
\* C26: the module builds of one instrument are all started in the same
\* step, so none waits for a sibling to complete, and a sibling's bundler
\* call can settle whatever the state of the others.
C26_SiblingBuildsConcurrent ==
    \A n \in AllNodes : \A m, k \in Modules(n) :
        /\ phase[m] = "idle" <=> phase[k] = "idle"
        /\ ( ~exited /\ phase[m] = "bundling" ) =>
               ENABLED NestedBuildSettled(m, TRUE)

\* C26 witness: the bundler calls of two sibling modules are in flight at once
C26_Witness ==
    \E n \in AllNodes : \E m, k \in Modules(n) :
        m # k /\ phase[m] = "bundling" /\ phase[k] = "bundling"

\* C27: while a rebuild of an instrument is in flight and the model's cap on
\* rebuilds in flight is not reached, a change of any watched file starts
\* another one.
C27_RebuildsOverlap ==
    \A n \in AllNodes :
        ( /\ ~exited /\ subscribed[n]
          /\ inflight[n] >= 1 /\ inflight[n] < MaxInFlight ) =>
            \A f \in watched[n] : ENABLED Change(n, f)

\* C27 witness: two rebuilds of one instrument are in flight, the second
\* started by a change notification
C27_Witness ==
    \E n \in AllNodes :
        /\ inflight[n] = 2
        /\ last = Step("change", n, TRUE)

(***************************************************************************)
(* Watch-set update of a successful rebuild (Spec).                        *)
(***************************************************************************)
\* C28: in the step of a successful rebuild the handler calls watcher.add
\* only for files of the new manifest that were not watched and
\* watcher.unwatch only for watched files that the new manifest lacks; a file
\* that was watched and is in the new manifest gets neither call.
C28_WatcherCallsAreTheDifference ==
    [][ \A n \in AllNodes :
          ( /\ last' = Step("rebuild", n, TRUE)
            /\ inflight'[n] < inflight[n] ) =>
              LET bundledFiles == BuiltFiles(lastInputs'[n])
                  added == emitted'[2].files
                  unwatched == emitted'[3].files
              IN /\ emitted'[2].kind = "add" /\ emitted'[3].kind = "unwatch"
                 /\ added \subseteq bundledFiles \ watched[n]
                 /\ unwatched \subseteq watched[n] \ bundledFiles
                 /\ \A f \in watched[n] \cap bundledFiles :
                        f \notin added \cup unwatched ]_vars

\* C28 witness: a rebuild has added c and unwatched b and has left a, which
\* is in both manifests, alone
C28_Witness ==
    \E n \in AllNodes :
        /\ last = Step("rebuild", n, TRUE)
        /\ Len(emitted) = 3
        /\ emitted[2] = WatcherCall("add", n, { ResolvedName[FileC] })
        /\ emitted[3] = WatcherCall("unwatch", n, { ResolvedName[FileB] })
        /\ ResolvedName[FileA] \in watched[n]

(***************************************************************************)
(* The metafile output (SpecOptions).                                      *)
(***************************************************************************)
\* C29: once a build or rebuild has settled, build_meta.json has been written
\* by it exactly when metafile output was requested for the run and the build
\* succeeded.
C29_MetafileWrittenWhenRequested ==
    buildResult.status \in { "succeeded", "failed" } =>
        ( buildResult.metafile <=>
              ( args.outputMetafile /\ buildResult.status = "succeeded" ) )

(***************************************************************************)
(* The text the environment plugin returns (SpecEnvironment).              *)
(***************************************************************************)
RECURSIVE Replaced(_, _, _, _)
\* the text s from offset pos on, with each of the references in matches, in
\* order, replaced by the literal of its value and the characters between
\* them kept
Replaced(s, matches, pos, environment) ==
    IF matches = <<>> THEN SubSeq(s, pos + 1, Len(s))
    ELSE LET match == Head(matches)
         IN SubSeq(s, pos + 1, match.index)
            \o Stringified(EnvValue(environment, match.variable))
            \o Replaced(s, Tail(matches), match.index + Len(match.text), environment)

\* C30: the load step returns the file's text with every reference replaced,
\* in order, by the literal of its value and every other character kept; a
\* file under node_modules is returned as it is.
C30_EveryReferenceReplaced ==
    loaded.done =>
        /\ ~loaded.threw
        /\ loaded.contents =
               IF IndexOf(file.path, NodeModules) >= 0 THEN file.contents
               ELSE Replaced(file.contents, MatchAll(file.contents, 0), 0, environ)

(***************************************************************************)
(* The watch loop (Spec).                                                  *)
(***************************************************************************)
\* C31: no step unsubscribes a subscribed instrument or empties its watch
\* set, whether a rebuild succeeded or failed in it; while the process runs,
\* a change of any watched file is still handled.
C31_WatcherNeverClosed ==
    /\ [][ \A n \in AllNodes :
              subscribed[n] => ( subscribed'[n] /\ watched'[n] # {} ) ]_vars
    /\ [] ( \A n \in AllNodes :
              ( subscribed[n] /\ ~exited /\ inflight[n] < MaxInFlight ) =>
                  \A f \in watched[n] : ENABLED Change(n, f) )

\* C31 witness: a rebuild has failed while another one is in flight, after a
\* successful rebuild changed the watch set, and the instrument is still
\* subscribed
C31_Witness ==
    \E n \in AllNodes :
        /\ last = Step("rebuild", n, FALSE)
        /\ inflight[n] = 1
        /\ subscribed[n]
        /\ lastInputs[n] = { FileA, FileC }
        /\ watched[n] = BuiltFiles({ FileA, FileC })

\* C32: with a bundler whose rebuild calls settle, every change notification
\* handled for an instrument is followed by the settling of a rebuild of that
\* instrument unless the process ends first, and every rebuild that settles
\* hands the logger a build-complete or a build-failed event for it.
C32_ChangeLeadsToOutcome ==
    /\ [][ \A n \in AllNodes :
              inflight'[n] < inflight[n] =>
                  /\ emitted' # << >>
                  /\ emitted'[1] \in { Event("buildComplete", n), Event("buildFailed", n) } ]_vars
    /\ \A i \in 1..MaxInstruments :
          ( last = Step("change", <<i>>, TRUE) ) ~>
              ( exited \/ last \in { Step("rebuild", <<i>>, TRUE), Step("rebuild", <<i>>, FALSE) } )

\* C32 witness: the last rebuild in flight has settled and its success has
\* been reported
C32_Witness ==
    \E n \in AllNodes :
        /\ last = Step("rebuild", n, TRUE)
        /\ Len(emitted) = 3 /\ emitted[1] = Event("buildComplete", n)
        /\ inflight[n] = 0

(***************************************************************************)
(* Overlapping rebuilds of one watched instrument: every call of           *)
(* context.rebuild() made by the change handler is kept with the inputs of *)
(* the source state it was started on (src/src/esbuild.ts:102-133,         *)
(* 317-359).                                                               *)
(***************************************************************************)
\* the instrument whose rebuilds are followed
Followed == <<1>>

\* a rebuild the change handler has started
Rebuild(m, state) == [ inputs |-> m, state |-> state ]

\* the rebuilds whose promise has not settled
Running == { k \in 1..Len(pending) : pending[k].state = "running" }

\* one instrument is watched by a program calling machWatch
InitOverlap ==
    /\ caller = "api"
    /\ filter = Undefined
    /\ config = "valid"
    /\ stage = "init"
    /\ command = "watch"
    /\ numConfigured = 1
    /\ ResolverIdle
    /\ LoaderIdle
    /\ ParseIdle
    /\ InitIdle

\* the watcher's "change" handler up to its await, the call of
\* context.rebuild() kept; a call made when no rebuild is in flight starts a
\* new round of overlapping rebuilds, and a round holds MaxInFlight calls
ChangeStarting(n, f, m) ==
    /\ ~exited /\ subscribed[n] /\ f \in watched[n]
    /\ inflight[n] < MaxInFlight
    /\ Running # {} => Len(pending) < MaxInFlight
    /\ pending' = IF Running = {} THEN << Rebuild(m, "running") >>
                  ELSE Append(pending, Rebuild(m, "running"))
    /\ emitted' = << Event("changeDetected", n), Event("rebuild", n) >>
    /\ inflight' = [ inflight EXCEPT ![n] = @ + 1 ]
    /\ last' = Step("change", n, TRUE)
    /\ UNCHANGED << caller, command, numConfigured, config, resolverVars, loaderVars,
                    parseVars, outputVars, styles, watchInit, lastIndex,
                    filter, outcome, events, stage, targets, phase, calls, errorsOf, results,
                    exited, exitCode, watched, subscribed, lastInputs >>

\* the promise of one of the rebuilds in flight settles and its handler's
\* branch runs; the handler does not look at the rebuilds started before or
\* after it
PendingSettled(n, k, ok) ==
    /\ ~exited /\ subscribed[n] /\ k \in Running
    /\ last' = Step("rebuild", n, ok)
    /\ inflight' = [ inflight EXCEPT ![n] = @ - 1 ]
    /\ pending' = [ pending EXCEPT ![k].state = IF ok THEN "fulfilled" ELSE "rejected" ]
    /\ IF ok THEN RebuildThen(n, pending[k].inputs)
       ELSE RebuildCatch(n)
    /\ UNCHANGED << caller, command, numConfigured, config, resolverVars, loaderVars,
                    parseVars, outputVars, styles, watchInit, lastIndex,
                    filter, outcome, events, stage, targets, phase, calls, errorsOf, results,
                    exited, exitCode >>

NextOverlap ==
    \/ MachWatch
    \/ ContextCreated(Followed)
    \/ \E ok \in BOOLEAN : InitialBuildSettled(Followed, ok)
    \/ \E f \in watched[Followed] : \E m \in Manifests : ChangeStarting(Followed, f, m)
    \/ \E k \in 1..Len(pending) : \E ok \in BOOLEAN : PendingSettled(Followed, k, ok)

SpecOverlap == InitOverlap /\ [][NextOverlap]_vars

\* C33: once no rebuild of the instrument is in flight and the rebuild that
\* was started last has succeeded, the watch set is the input set of that
\* rebuild.
C33_WatchSetOfLastStarted ==
    ( pending # << >> /\ Running = {} /\ pending[Len(pending)].state = "fulfilled" ) =>
        watched[Followed] = BuiltFiles(pending[Len(pending)].inputs)

(***************************************************************************)
(* onEnd callbacks of one build of the nested-module pipeline: includeCSS  *)
(* and writePackageSources (src/src/esbuild.ts:160-216, 218-262).          *)
(***************************************************************************)
\* a program calling the build driver for one instrument
InitStyles ==
    /\ caller = "api"
    /\ filter = Undefined
    /\ config = "valid"
    /\ stage = "init"
    /\ command = "build"
    /\ numConfigured = 1
    /\ ResolverIdle
    /\ LoaderIdle
    /\ ParseIdle
    /\ InitIdle

\* build(instrument, logger, module) up to esbuild.build(buildOptions): the
\* includeCSS plugin is pushed for an instrument with modules, the
\* writePackageSources plugin unless skipPackageSources or module
StylesBuild(n, skipPackageSources) ==
    /\ styles.stage = "idle"
    /\ styles' = [ NoStyles EXCEPT !.stage = "bundling",
                                   !.node = n,
                                   !.includes = ( Modules(n) # {} ),
                                   !.packages = ( ~skipPackageSources /\ Len(n) = 1 ) ]
    /\ emitted' = << Event("build", n) >>
    /\ last' = Step("build", n, TRUE)
    /\ UNCHANGED << caller, command, numConfigured, config, resolverVars, loaderVars,
                    parseVars, outputVars, pending, watchInit, lastIndex,
                    filter, outcome, events, stage, targets, phase, calls, errorsOf, results,
                    exited, exitCode, watchVars >>

\* the bundler has finished and calls the onEnd callbacks in the order the
\* plugins were pushed: includeCSS starts one read-then-append task per
\* module and returns without their promises; writePackageSources, when the
\* result has no errors, starts reading bundle.js
StylesOnEnd(ok) ==
    /\ styles.stage = "bundling"
    /\ styles' = [ styles EXCEPT
                     !.stage = "ended",
                     !.tasks = IF styles.includes
                               THEN [ m \in Modules(styles.node) |-> "reading" ]
                               ELSE << >>,
                     !.packaging = IF styles.packages /\ ok THEN "js" ELSE "none" ]
    /\ emitted' = << >>
    /\ last' = Step("onEnd", styles.node, ok)
    /\ UNCHANGED << caller, command, numConfigured, config, resolverVars, loaderVars,
                    parseVars, outputVars, pending, watchInit, lastIndex,
                    filter, outcome, events, stage, targets, phase, calls, errorsOf, results,
                    exited, exitCode, watchVars >>

\* includeCSS, task of module m: fs.readFile(mod) resolves and fs.appendFile
\* is called; then fs.appendFile resolves
StylesTaskStep(m) ==
    /\ styles.stage = "ended"
    /\ m \in DOMAIN styles.tasks
    /\ styles.tasks[m] # "appended"
    /\ styles' = [ styles EXCEPT !.tasks[m] = IF @ = "reading" THEN "appending"
                                              ELSE "appended" ]
    /\ emitted' = << >>
    /\ last' = Step("includeCSS", m, TRUE)
    /\ UNCHANGED << caller, command, numConfigured, config, resolverVars, loaderVars,
                    parseVars, outputVars, pending, watchInit, lastIndex,
                    filter, outcome, events, stage, targets, phase, calls, errorsOf, results,
                    exited, exitCode, watchVars >>

\* the module stylesheets bundle.css holds
Appended == { m \in DOMAIN styles.tasks : styles.tasks[m] = "appended" }

\* writePackageSources, one await at a time: bundle.js is read and the read
\* of bundle.css begins; bundle.css is read as it is at that moment; the
\* templates are written
StylesPackageStep ==
    /\ styles.stage = "ended"
    /\ styles.packaging \in { "js", "css", "read" }
    /\ styles' = [ styles EXCEPT
                     !.packaging = CASE @ = "js" -> "css"
                                     [] @ = "css" -> "read"
                                     [] OTHER -> "written",
                     !.packaged = IF styles.packaging = "css" THEN Appended ELSE @ ]
    /\ emitted' = << >>
    /\ last' = Step("writePackageSources", styles.node, TRUE)
    /\ UNCHANGED << caller, command, numConfigured, config, resolverVars, loaderVars,
                    parseVars, outputVars, pending, watchInit, lastIndex,
                    filter, outcome, events, stage, targets, phase, calls, errorsOf, results,
                    exited, exitCode, watchVars >>

NextStyles ==
    \/ \E n \in AllNodes : \E skipPackageSources \in BOOLEAN : StylesBuild(n, skipPackageSources)
    \/ \E ok \in BOOLEAN : StylesOnEnd(ok)
    \/ \E m \in AllNodes : StylesTaskStep(m)
    \/ StylesPackageStep

SpecStyles == InitStyles /\ [][NextStyles]_vars

\* C34: when the packaging plugin has read the stylesheet bundle of an
\* instrument with submodules, the stylesheet of every submodule had been
\* appended to it.
C34_PackagedStylesComplete ==
    styles.packaging \in { "read", "written" } =>
        styles.packaged = Modules(styles.node)

(***************************************************************************)
(* Nested-module pipeline: watch driver up to the subscription of the      *)
(* watcher (src/src/esbuild.ts:303-316) and its aggregator                 *)
(* (src/src/mach.ts:80-93). watchInstrument first awaits the               *)
(* watchInstrument calls of its modules and then calls buildInstrument,    *)
(* which builds the modules itself (src/src/esbuild.ts:264-279).           *)
(***************************************************************************)
InitNestedWatch ==
    /\ caller = "cli"
    /\ command = "watch"
    /\ config = "valid"
    /\ stage = "init"
    /\ filter \in { NestedPreActionFilter(opt) : opt \in FilterOptions \cup { Undefined } }
    /\ InitRun

\* watchInstrument entered: with modules it awaits Promise.all over their
\* watchInstrument calls; without, it has called buildInstrument
EnteredWatch(n) == IF Modules(n) # {} THEN "modules" ELSE "building"

\* machWatch: filter, then start watchInstrument for every instrument; an
\* instrument without modules is in build() at once
NestedMachWatch ==
    /\ ~exited /\ stage = "init" /\ command = "watch"
    /\ targets' = FilteredInstruments
    /\ LET started == UNION { Subtree(<<targets'[k]>>) : k \in 1..Len(targets') }
       IN /\ watchInit' = [ n \in AllNodes |->
                              IF n \in started THEN EnteredWatch(n) ELSE watchInit[n] ]
          /\ phase' = [ n \in AllNodes |->
                          IF n \in started /\ Modules(n) = {} THEN "config" ELSE phase[n] ]
    /\ stage' = "running"
    /\ emitted' = <<>>
    /\ last' = Step("machWatch", <<>>, TRUE)
    /\ UNCHANGED << caller, command, numConfigured, config, resolverVars, loaderVars,
                    parseVars, outputVars, pending, styles, lastIndex,
                    filter, outcome, events, calls, errorsOf, results, exited, exitCode,
                    watchVars >>

\* Promise.all over the watchInstrument calls of the modules of n resolves,
\* its results are dropped, and buildInstrument(n) is called: it starts
\* buildInstrument for every nested module again
WatchModulesSettled(n) ==
    /\ ~exited /\ watchInit[n] = "modules"
    /\ \A m \in Modules(n) : watchInit[m] = "returned"
    /\ watchInit' = [ watchInit EXCEPT ![n] = "building" ]
    /\ phase' = [ m \in AllNodes |->
                    IF m \in Subtree(n) THEN EnteredPhase(m) ELSE phase[m] ]
    /\ errorsOf' = [ m \in AllNodes |->
                       IF m \in Subtree(n) THEN <<>> ELSE errorsOf[m] ]
    /\ emitted' = <<>>
    /\ last' = Step("watchModules", n, TRUE)
    /\ UNCHANGED << caller, command, numConfigured, config, resolverVars, loaderVars,
                    parseVars, outputVars, pending, styles, lastIndex,
                    filter, outcome, events, stage, targets, calls, results, exited, exitCode,
                    watchVars >>

\* watchInstrument after its buildInstrument call has returned: a result
\* with errors is returned as it is; otherwise the watcher is created on the
\* inputs of the result and the change handler is attached
WatchBuilt(n, m) ==
    /\ ~exited /\ watchInit[n] = "building" /\ phase[n] = "fulfilled"
    /\ watchInit' = [ watchInit EXCEPT ![n] = "returned" ]
    /\ IF HasErrors(n)
       THEN UNCHANGED << watched, subscribed, lastInputs >>
       ELSE /\ lastInputs' = [ lastInputs EXCEPT ![n] = m ]
            /\ watched' = [ watched EXCEPT ![n] = BuiltFiles(m) ]
            /\ subscribed' = [ subscribed EXCEPT ![n] = TRUE ]
    /\ emitted' = <<>>
    /\ last' = Step("watchBuilt", n, ~HasErrors(n))
    /\ UNCHANGED << caller, command, numConfigured, config, resolverVars, loaderVars,
                    parseVars, outputVars, pending, styles, lastIndex,
                    filter, outcome, events, stage, targets, phase, calls, errorsOf, results,
                    exited, exitCode, inflight >>

\* machWatch: the callback chained on Promise.all over the watchInstrument
\* calls; a result with errors ends the process
NestedWatchThenAll ==
    /\ ~exited /\ stage = "running" /\ command = "watch"
    /\ \A n \in TargetNodes : watchInit[n] = "returned"
    /\ results' = NestedResults
    /\ stage' = "reported"
    /\ IF \E k \in 1..Len(NestedResults) : NestedResults[k] = "errors"
       THEN exited' = TRUE /\ exitCode' = 1
       ELSE UNCHANGED << exited, exitCode >>
    /\ emitted' = <<>>
    /\ last' = Step("watchCommand", <<>>, TRUE)
    /\ UNCHANGED << runVars, filter, outcome, events, targets, phase, calls, errorsOf, watchVars >>

NextNestedWatch ==
    \/ NestedMachWatch
    \/ \E n \in AllNodes : WatchModulesSettled(n)
    \/ \E n \in AllNodes : ConfigRead(n)
    \/ \E n \in AllNodes : \E ok \in BOOLEAN : NestedBuildSettled(n, ok)
    \/ \E n \in AllNodes : ModulesSettled(n)
    \/ \E n \in AllNodes : \E m \in Manifests : WatchBuilt(n, m)
    \/ NestedWatchThenAll

SpecNestedWatch == InitNestedWatch /\ [][NextNestedWatch]_vars

\* C35: during watch initialization the bundler is invoked at most once for
\* an instrument of the tree, and exactly once for each of them when the
\* watchInstrument call of a top-level instrument has returned a watcher.
C35_EachInstrumentBuiltOnce ==
    /\ \A n \in AllNodes : calls[n] <= 1
    /\ \A n \in TargetNodes :
          ( watchInit[n] = "returned" /\ subscribed[n] ) =>
              \A m \in Subtree(n) : calls[m] = 1

\* C36: once the watchInstrument call of an instrument has returned the
\* errors of one of its modules, and while the process runs, no instrument
\* of its tree has a subscribed watcher.
C36_NoWatcherLeftAfterFailedInit ==
    \A n \in AllNodes :
        ( ~exited /\ watchInit[n] = "returned" /\ FirstFailedModule(n) # <<>> /\ HasErrors(n) ) =>
            \A m \in Subtree(n) : ~subscribed[m]

NamePool == { << "P", "F", "D" >>, << "N", "D" >>, << "P", "P" >> }

\* config.instruments, by name: every list of at most MaxInstruments names
NameLists ==
    UNION { [ 1..k -> NamePool ] : k \in 0..MaxInstruments }

\* RegExp objects a caller may pass: a source of literal characters with or
\* without the global and the sticky flag
RegExpPool ==
    { [ source |-> p, global |-> g, sticky |-> y ] :
        p \in FilterOptions \cup { << "D" >> }, g \in BOOLEAN, y \in BOOLEAN }

\* RegExp.prototype.test(name) on a RegExp whose lastIndex is idx: whether
\* it matched, and the lastIndex it leaves. Without the global and sticky
\* flags the search starts at 0 and lastIndex is left alone; with one of
\* them it starts at lastIndex (sticky: matches there only), a match leaves
\* the offset of its end and a failure leaves 0
RegExpExec(re, name, idx) ==
    IF ~re.global /\ ~re.sticky
    THEN [ matched |-> IndexOf(name, re.source) >= 0, lastIndex |-> idx ]
    ELSE LET hits == { i \in idx..(Len(name) - Len(re.source)) :
                         /\ SubSeq(name, i + 1, i + Len(re.source)) = re.source
                         /\ re.sticky => i = idx }
         IN IF hits = {} THEN [ matched |-> FALSE, lastIndex |-> 0 ]
            ELSE [ matched |-> TRUE,
                   lastIndex |-> ( CHOOSE i \in hits : \A j \in hits : i <= j )
                                   + Len(re.source) ]

RECURSIVE FilterWithRegExp(_, _, _, _)
\* args.config.instruments.filter((instrument) =>
\* args.filter?.test(instrument.name) ?? true), from index i on with the
\* RegExp's lastIndex at idx: the indices kept and the lastIndex left
FilterWithRegExp(re, names, i, idx) ==
    IF i > Len(names) THEN [ kept |-> << >>, lastIndex |-> idx ]
    ELSE LET tested == RegExpExec(re, names[i], idx)
             rest == FilterWithRegExp(re, names, i + 1, tested.lastIndex)
         IN [ kept |-> IF tested.matched THEN << i >> \o rest.kept ELSE rest.kept,
              lastIndex |-> rest.lastIndex ]

\* a program about to call machBuild or machWatch with its own MachArgs
InitFilter ==
    /\ caller = "api"
    /\ command \in { "build", "watch" }
    /\ config = "valid"
    /\ stage = "init"
    /\ filter \in RegExpPool
    /\ \E names \in NameLists :
          /\ args = [ config |-> [ instruments |-> names ] ]
          /\ numConfigured = Len(names)
    /\ instrument = NoFields
    /\ accepted = "unparsed"
    /\ options = NoFields
    /\ buildResult = NoResult
    /\ LoaderIdle
    /\ ParseIdle
    /\ InitIdle

\* the first statement of machBuild and of machWatch: the instruments are
\* filtered by name; the program may call either again with the same
\* arguments
MachFilter ==
    /\ ~exited /\ stage = "init"
    /\ \E run \in { FilterWithRegExp(filter, args.config.instruments, 1, lastIndex) } :
          /\ targets' = run.kept
          /\ lastIndex' = run.lastIndex
    /\ emitted' = << >>
    /\ last' = Step("filter", << >>, TRUE)
    /\ UNCHANGED << caller, command, numConfigured, config, resolverVars, loaderVars,
                    parseVars, outputVars, pending, styles, watchInit,
                    filter, outcome, events, stage, phase, calls, errorsOf, results,
                    exited, exitCode, watchVars >>

NextFilter == MachFilter

SpecFilter == InitFilter /\ [][NextFilter]_vars

\* C38: after every run of the filter, an instrument is selected exactly when
\* its name matches the pattern tested on its own, whatever its position,
\* the names tested before it and the runs made before.
C38_SelectionByNameOnly ==
    last = Step("filter", << >>, TRUE) =>
        \A i \in 1..numConfigured :
            ( \E k \in 1..Len(targets) : targets[k] = i ) <=>
                RegExpExec(filter, args.config.instruments[i], 0).matched

====
